---- MODULE Spec2Model ----
(***************************************************************************)
(* A model of the fedimint mint server module                              *)
(* (modules/fedimint-mint-server/src/lib.rs): the handlers process_input,  *)
(* process_output, audit, the backup endpoints and the consensus-item      *)
(* hooks, each run inside a database transaction.                          *)
(*                                                                         *)
(* The database engine (fedimint_core::db) is a collaborator of the module *)
(* and is modelled from its contract: a typed key/value store with atomic  *)
(* multi-key transactions, read-your-own-writes, first-writer-wins on      *)
(* conflicting writes and post-commit callbacks.  A transaction reads the  *)
(* committed store overlaid with its own writes; when a transaction        *)
(* commits, every other open transaction that wrote one of the committed   *)
(* keys is doomed and its own commit fails, discarding all its effects.    *)
(***************************************************************************)
EXTENDS Integers, Sequences, FiniteSets, TLC

(***************************************************************************)
(* Bounds of the model.                                                    *)
(***************************************************************************)
\* number of database transactions that can be open at the same time
MaxTx == 2
\* number of distinct note nonces (spend keys) in circulation
MaxNonce == 1
\* number of distinct OutPoints of issuance outputs
MaxOutPoint == 1
\* the largest timestamp of a backup request
MaxTime == 1

Txs == 1..MaxTx
Nonces == 1..MaxNonce
OutPoints == 1..MaxOutPoint
BackupIds == {1}

(***************************************************************************)
(* Options: <<>> is None, <<v>> is Some(v).                                *)
(***************************************************************************)
None == <<>>
Some(v) == <<v>>
IsSome(o) == Len(o) = 1
Unwrap(o) == o[1]

(***************************************************************************)
(* Configuration of the module instance (struct Mint).  Two denomination   *)
(* tiers, 1 and 2 msat; the secret share and the aggregate public key of a *)
(* tier are named after the tier.                                          *)
(***************************************************************************)
Tiers == {1, 2}
\* the amounts requests name: the tiers and 4 msat, which is no tier of the mint
Amounts == Tiers \cup {4}
\* the tier a nonce was blind-signed for, and the tier the output of an
\* OutPoint asks for (an OutPoint names one output of one transaction)
TierOf(i) == IF i % 2 = 1 THEN 1 ELSE 2

sec_key == [t \in Tiers |-> [kind |-> "sk", tier |-> t]]
pub_key == [t \in Tiers |-> [kind |-> "apk", tier |-> t]]
fee_consensus == [note_spend_abs |-> 3, note_issuance_abs |-> 5]
\* a key under which nothing of the federation is signed (a forger's key)
ForgedKey == [kind |-> "apk", tier |-> 0]

\* A note signature names the message and the aggregate key of its signer.
Signature(msg, key) == [msg |-> msg, key |-> key]
\* Note::verify: the signature is one over the note's nonce under `key`
verify(note, key) == note.signature = Signature(note.nonce, key)
\* Note::spend_key: the nonce is the note's spend key
spend_key(note) == note.nonce
\* tbs::sign_blinded_msg: the share of this peer over the blinded message
sign_blinded_msg(msg, key) == [msg |-> msg, key |-> key]

(***************************************************************************)
(* Database keys, one kind per key prefix.                                 *)
(***************************************************************************)
NonceKey(n) == <<"NoteNonce", n>>
MintOutputOutcomeKey(op) == <<"OutputOutcome", op>>
AuditIssuance(op) == <<"Issuance", op>>
AuditIssuanceTotal == <<"IssuanceTotal", 0>>
AuditRedemption(n) == <<"Redemption", n>>
AuditRedemptionTotal == <<"RedemptionTotal", 0>>
\* the keys MintAuditItemKeyPrefix selects
MintAuditItemKeys ==
    {AuditIssuance(op) : op \in OutPoints} \cup {AuditIssuanceTotal}
    \cup {AuditRedemption(n) : n \in Nonces} \cup {AuditRedemptionTotal}
EcashBackupKey(id) == <<"EcashBackup", id>>
Keys ==
    {NonceKey(n) : n \in Nonces}
    \cup {MintOutputOutcomeKey(op) : op \in OutPoints}
    \cup MintAuditItemKeys
    \cup {EcashBackupKey(id) : id \in BackupIds}

(***************************************************************************)
(* The requests the handlers are called with.                              *)
(***************************************************************************)
\* the federation's signature over a nonce, under the key of the nonce's tier
Genuine(n) == Signature(n, pub_key[TierOf(n)])
\* the notes presented: the genuine note of each nonce, the nonce with a
\* forger's signature, and the nonce with the genuine signature of nonce 1
Notes ==
    {[nonce |-> n, signature |-> Genuine(n)] : n \in Nonces}
    \cup {[nonce |-> n, signature |-> Signature(n, ForgedKey)] : n \in Nonces}
    \cup {[nonce |-> n, signature |-> Genuine(1)] : n \in Nonces}
\* MintInput: V0 carries an amount and a note; Default is an unknown variant
MintInputs ==
    [variant : {"V0"}, amount : Amounts, note : Notes]
    \cup [variant : {"Default"}, amount : {0}, note : {[nonce |-> 1, signature |-> Genuine(1)]}]
\* the input that redeems the genuine note of nonce n at its own tier
GenuineInput(n) ==
    [variant |-> "V0", amount |-> TierOf(n),
     note |-> [nonce |-> n, signature |-> Genuine(n)]]
\* the inputs that redeem a genuine note at its own tier
GenuineInputs == {GenuineInput(n) : n \in Nonces}
\* MintOutput: V0 carries an amount and a blinded nonce
BlindNonces == {"b1"}
MintOutputs ==
    [variant : {"V0"}, amount : Amounts, blind_nonce : BlindNonces]
    \cup [variant : {"Default"}, amount : {0}, blind_nonce : BlindNonces]
\* the output of an OutPoint
OutputAt(op) == [variant |-> "V0", amount |-> TierOf(op), blind_nonce |-> "b1"]
\* the outputs a transaction engine can present for an OutPoint: the output
\* of the OutPoint, one of an unknown tier, one of an unknown variant
OutputsAt(op) ==
    {o \in MintOutputs : o.variant = "Default" \/ o.amount \in {TierOf(op), 4}}
\* SignedBackupRequest: `valid` says whether the signature over the request verifies
SignedBackupRequests ==
    [id : BackupIds, timestamp : 0..MaxTime, payload : {"p1", "p2"}, valid : BOOLEAN]
\* the histograms of the module
Metrics ==
    {"mint_redeemed_ecash_sats", "mint_redeemed_ecash_fees_sats",
     "mint_issued_ecash_sats", "mint_issued_ecash_fees_sats"}

VARIABLES
    db,      \* the committed store: Keys -> Option(value)
    tx,      \* the transaction slots: state, write set, on-commit hooks
    last,    \* the last call made on the module and what it returned
    metrics, \* the histograms: what has been observed, and how often
    ledger   \* history: what committed transactions redeemed and issued

\* The state of one federation request of the client (fedimint-core query.rs)
VARIABLES
    federation, \* the peers of the federation the request is made to
    strategy, \* the QueryStrategy of the request: its kind and its fields
    pending,  \* the peers with a request outstanding
    step,     \* the last event fed to the strategy and the QueryStep it returned
    clock,    \* what now() reads
    errored,  \* history: the peers an error of which was processed, and the error
    honest,   \* the peers that answer every request with the same value
    round,    \* history of ThresholdConsensus: the peers that answered Ok
              \* since the last Retry
    discovery \* a call of discover_common_core_api_version: its arguments
              \* and what it returned

\* The key ceremony and the legacy consensus (minimint consensus.rs)
VARIABLES
    call,     \* a call of a function of the key ceremony or of the key
              \* encoding: its arguments and what it returned
    legacy    \* the legacy consensus: the stored signature shares and the
              \* signature responses it has emitted

qvars == <<federation, strategy, pending, step, clock, errored, honest, round, discovery>>
kvars == <<call, legacy>>
vars == <<db, tx, last, metrics, ledger, federation, strategy, pending, step, clock, errored, honest, round,
          discovery, call, legacy>>

\* no key function is being called and the legacy consensus is not running
NoCalls ==
    /\ call = [op |-> "none"]
    /\ legacy = [op |-> "none"]

\* no federation request is under way
NoQuery ==
    /\ federation = {}
    /\ strategy = [kind |-> "none"]
    /\ pending = {}
    /\ step = [out |-> [tag |-> "none"]]
    /\ clock = 0
    /\ errored = <<>>
    /\ honest = {}
    /\ round = {}
    /\ discovery = [op |-> "none"]

(***************************************************************************)
(* The database transaction (fedimint_core::db), from its contract.        *)
(***************************************************************************)
\* a transaction slot nobody uses
IdleTx ==
    [st |-> "idle", writes |-> <<>>, doomed |-> FALSE, hooks |-> <<>>,
     ins |-> [n \in Nonces |-> 0], outs |-> [op \in OutPoints |-> 0],
     in_msat |-> 0, out_msat |-> 0, rolled |-> None]

\* DatabaseTransaction::get_value on a transaction with write set w
get_value(w, k) == IF k \in DOMAIN w THEN w[k] ELSE db[k]
\* DatabaseTransaction::insert_entry: the write set afterwards
insert_entry(w, k, v) == [x \in DOMAIN w \cup {k} |-> IF x = k THEN Some(v) ELSE w[x]]
\* DatabaseTransaction::remove_entry: the write set afterwards
remove_entry(w, k) == [x \in DOMAIN w \cup {k} |-> IF x = k THEN None ELSE w[x]]
\* DatabaseTransaction::insert_new_entry demands that the key is new
is_new_entry(w, k) == ~IsSome(get_value(w, k))
\* DatabaseTransaction::find_by_prefix(MintAuditItemKeyPrefix): the keys found
find_by_prefix(w, prefix) == {k \in prefix : IsSome(get_value(w, k))}
\* DatabaseTransaction::on_commit: the hooks afterwards
on_commit(hooks, metric, amount, fee) == Append(hooks, [metric |-> metric, amount |-> amount, fee |-> fee])

\* what a handler leaves behind: write set, hooks, the value it returns
Ret(w, hooks, res) == [w |-> w, hooks |-> hooks, res |-> res]
Ok(v) == [ok |-> TRUE, panic |-> FALSE, val |-> v]
Err(e) == [ok |-> FALSE, panic |-> FALSE, err |-> e]
Panic(msg) == [ok |-> FALSE, panic |-> TRUE, err |-> msg]

RECURSIVE SumOf(_, _)
\* the sum of f[k] over the keys k of S
SumOf(S, f) ==
    IF S = {} THEN 0
    ELSE LET k == CHOOSE x \in S : TRUE IN f[k] + SumOf(S \ {k}, f)

(***************************************************************************)
(* The handlers of the module.                                             *)
(***************************************************************************)
calculate_mint_redeemed_ecash_metrics(hooks, amount, fee) ==
    on_commit(hooks, "redeemed", amount, fee)

calculate_mint_issued_ecash_metrics(hooks, amount, fee) ==
    on_commit(hooks, "issued", amount, fee)

\* process_input as it would be without the SpentCoin check
process_input_unchecked(w, hooks, input) ==
    IF input.variant # "V0" THEN Ret(w, hooks, Err("UnknownInputVariant"))
    ELSE IF input.amount \notin DOMAIN pub_key
    THEN Ret(w, hooks, Err("InvalidAmountTier"))
    ELSE IF ~verify(input.note, pub_key[input.amount])
    THEN Ret(w, hooks, Err("InvalidSignature"))
    ELSE
        LET nonce == input.note.nonce
            w1 == insert_entry(w, NonceKey(nonce), "unit")
        IN  IF ~is_new_entry(w1, AuditRedemption(nonce))
            THEN Ret(w1, hooks, Panic("insert_new_entry"))
            ELSE
                LET w2 == insert_entry(w1, AuditRedemption(nonce), input.amount)
                    amount == input.amount
                    fee == fee_consensus.note_spend_abs
                IN  Ret(w2,
                        calculate_mint_redeemed_ecash_metrics(hooks, amount, fee),
                        Ok([amount |-> amount, fee |-> fee,
                            pub_key |-> spend_key(input.note)]))

\* process_input as it would be if it looked the nonce up in the committed
\* store instead of in its own transaction
process_input_committed_only(w, hooks, input) ==
    IF input.variant # "V0" THEN Ret(w, hooks, Err("UnknownInputVariant"))
    ELSE IF input.amount \notin DOMAIN pub_key
    THEN Ret(w, hooks, Err("InvalidAmountTier"))
    ELSE IF ~verify(input.note, pub_key[input.amount])
    THEN Ret(w, hooks, Err("InvalidSignature"))
    ELSE
        LET nonce == input.note.nonce
            prev == db[NonceKey(nonce)]
            w1 == insert_entry(w, NonceKey(nonce), "unit")
        IN  IF IsSome(prev) THEN Ret(w1, hooks, Err("SpentCoin"))
            ELSE IF ~is_new_entry(w1, AuditRedemption(nonce))
            THEN Ret(w1, hooks, Panic("insert_new_entry"))
            ELSE
                LET w2 == insert_entry(w1, AuditRedemption(nonce), input.amount)
                    amount == input.amount
                    fee == fee_consensus.note_spend_abs
                IN  Ret(w2,
                        calculate_mint_redeemed_ecash_metrics(hooks, amount, fee),
                        Ok([amount |-> amount, fee |-> fee,
                            pub_key |-> spend_key(input.note)]))

\* process_input as it would be with the test of the previous entry inverted
process_input_inverted(w, hooks, input) ==
    IF input.variant # "V0" THEN Ret(w, hooks, Err("UnknownInputVariant"))
    ELSE IF input.amount \notin DOMAIN pub_key
    THEN Ret(w, hooks, Err("InvalidAmountTier"))
    ELSE IF ~verify(input.note, pub_key[input.amount])
    THEN Ret(w, hooks, Err("InvalidSignature"))
    ELSE
        LET nonce == input.note.nonce
            prev == get_value(w, NonceKey(nonce))
            w1 == insert_entry(w, NonceKey(nonce), "unit")
        IN  IF ~IsSome(prev) THEN Ret(w1, hooks, Err("SpentCoin"))
            ELSE IF ~is_new_entry(w1, AuditRedemption(nonce))
            THEN Ret(w1, hooks, Panic("insert_new_entry"))
            ELSE
                LET w2 == insert_entry(w1, AuditRedemption(nonce), input.amount)
                    amount == input.amount
                    fee == fee_consensus.note_spend_abs
                IN  Ret(w2,
                        calculate_mint_redeemed_ecash_metrics(hooks, amount, fee),
                        Ok([amount |-> amount, fee |-> fee,
                            pub_key |-> spend_key(input.note)]))

\* process_input as it would be without the signature check
process_input_no_verify(w, hooks, input) ==
    IF input.variant # "V0" THEN Ret(w, hooks, Err("UnknownInputVariant"))
    ELSE IF input.amount \notin DOMAIN pub_key
    THEN Ret(w, hooks, Err("InvalidAmountTier"))
    ELSE
        LET nonce == input.note.nonce
            prev == get_value(w, NonceKey(nonce))
            w1 == insert_entry(w, NonceKey(nonce), "unit")
        IN  IF IsSome(prev) THEN Ret(w1, hooks, Err("SpentCoin"))
            ELSE IF ~is_new_entry(w1, AuditRedemption(nonce))
            THEN Ret(w1, hooks, Panic("insert_new_entry"))
            ELSE
                LET w2 == insert_entry(w1, AuditRedemption(nonce), input.amount)
                    amount == input.amount
                    fee == fee_consensus.note_spend_abs
                IN  Ret(w2,
                        calculate_mint_redeemed_ecash_metrics(hooks, amount, fee),
                        Ok([amount |-> amount, fee |-> fee,
                            pub_key |-> spend_key(input.note)]))


\* process_input as it would be if it charged the issuance fee
process_input_issuance_fee(w, hooks, input) ==
    IF input.variant # "V0" THEN Ret(w, hooks, Err("UnknownInputVariant"))
    ELSE IF input.amount \notin DOMAIN pub_key
    THEN Ret(w, hooks, Err("InvalidAmountTier"))
    ELSE IF ~verify(input.note, pub_key[input.amount])
    THEN Ret(w, hooks, Err("InvalidSignature"))
    ELSE
        LET nonce == input.note.nonce
            prev == get_value(w, NonceKey(nonce))
            w1 == insert_entry(w, NonceKey(nonce), "unit")
        IN  IF IsSome(prev) THEN Ret(w1, hooks, Err("SpentCoin"))
            ELSE IF ~is_new_entry(w1, AuditRedemption(nonce))
            THEN Ret(w1, hooks, Panic("insert_new_entry"))
            ELSE
                LET w2 == insert_entry(w1, AuditRedemption(nonce), input.amount)
                    amount == input.amount
                    fee == fee_consensus.note_issuance_abs
                IN  Ret(w2,
                        calculate_mint_redeemed_ecash_metrics(hooks, amount, fee),
                        Ok([amount |-> amount, fee |-> fee,
                            pub_key |-> spend_key(input.note)]))


\* process_input as it would be if it counted the redemption it refuses
process_input_counts_spent(w, hooks, input) ==
    IF input.variant # "V0" THEN Ret(w, hooks, Err("UnknownInputVariant"))
    ELSE IF input.amount \notin DOMAIN pub_key
    THEN Ret(w, hooks, Err("InvalidAmountTier"))
    ELSE IF ~verify(input.note, pub_key[input.amount])
    THEN Ret(w, hooks, Err("InvalidSignature"))
    ELSE
        LET nonce == input.note.nonce
            prev == get_value(w, NonceKey(nonce))
            w1 == insert_entry(w, NonceKey(nonce), "unit")
            amount == input.amount
            fee == fee_consensus.note_spend_abs
        IN  IF IsSome(prev)
            THEN Ret(w1, calculate_mint_redeemed_ecash_metrics(hooks, amount, fee),
                     Err("SpentCoin"))
            ELSE IF ~is_new_entry(w1, AuditRedemption(nonce))
            THEN Ret(w1, hooks, Panic("insert_new_entry"))
            ELSE
                LET w2 == insert_entry(w1, AuditRedemption(nonce), input.amount)
                IN  Ret(w2,
                        calculate_mint_redeemed_ecash_metrics(hooks, amount, fee),
                        Ok([amount |-> amount, fee |-> fee,
                            pub_key |-> spend_key(input.note)]))

\* Mint::process_input
process_input(w, hooks, input) ==
    IF input.variant # "V0" THEN Ret(w, hooks, Err("UnknownInputVariant"))
    ELSE IF input.amount \notin DOMAIN pub_key
    THEN Ret(w, hooks, Err("InvalidAmountTier"))
    ELSE IF ~verify(input.note, pub_key[input.amount])
    THEN Ret(w, hooks, Err("InvalidSignature"))
    ELSE
        LET nonce == input.note.nonce
            prev == get_value(w, NonceKey(nonce))
            w1 == insert_entry(w, NonceKey(nonce), "unit")
        IN  IF IsSome(prev) THEN Ret(w1, hooks, Err("SpentCoin"))
            ELSE IF ~is_new_entry(w1, AuditRedemption(nonce))
            THEN Ret(w1, hooks, Panic("insert_new_entry"))
            ELSE
                LET w2 == insert_entry(w1, AuditRedemption(nonce), input.amount)
                    amount == input.amount
                    fee == fee_consensus.note_spend_abs
                IN  Ret(w2,
                        calculate_mint_redeemed_ecash_metrics(hooks, amount, fee),
                        Ok([amount |-> amount, fee |-> fee,
                            pub_key |-> spend_key(input.note)]))

\* process_output as it would be without the Issuance audit entry
process_output_no_audit(w, hooks, output, out_point) ==
    IF output.variant # "V0" THEN Ret(w, hooks, Err("UnknownOutputVariant"))
    ELSE IF output.amount \notin DOMAIN sec_key
    THEN Ret(w, hooks, Err("InvalidAmountTier"))
    ELSE
        LET amount_key == sec_key[output.amount]
        IN  IF ~is_new_entry(w, MintOutputOutcomeKey(out_point))
            THEN Ret(w, hooks, Panic("insert_new_entry"))
            ELSE
                LET w1 == insert_entry(w, MintOutputOutcomeKey(out_point),
                                       sign_blinded_msg(output.blind_nonce, amount_key))
                    amount == output.amount
                    fee == fee_consensus.note_issuance_abs
                IN  Ret(w1,
                        calculate_mint_issued_ecash_metrics(hooks, amount, fee),
                        Ok([amount |-> amount, fee |-> fee]))


\* process_output as it would be if it wrote the outcome with insert_entry
process_output_overwrite(w, hooks, output, out_point) ==
    IF output.variant # "V0" THEN Ret(w, hooks, Err("UnknownOutputVariant"))
    ELSE IF output.amount \notin DOMAIN sec_key
    THEN Ret(w, hooks, Err("InvalidAmountTier"))
    ELSE
        LET amount_key == sec_key[output.amount]
            w1 == insert_entry(w, MintOutputOutcomeKey(out_point),
                               sign_blinded_msg(output.blind_nonce, amount_key))
            w2 == insert_entry(w1, AuditIssuance(out_point), output.amount)
            amount == output.amount
            fee == fee_consensus.note_issuance_abs
        IN  Ret(w2,
                calculate_mint_issued_ecash_metrics(hooks, amount, fee),
                Ok([amount |-> amount, fee |-> fee]))


\* Mint::process_output
process_output(w, hooks, output, out_point) ==
    IF output.variant # "V0" THEN Ret(w, hooks, Err("UnknownOutputVariant"))
    ELSE IF output.amount \notin DOMAIN sec_key
    THEN Ret(w, hooks, Err("InvalidAmountTier"))
    ELSE
        LET amount_key == sec_key[output.amount]
        IN  IF ~is_new_entry(w, MintOutputOutcomeKey(out_point))
            THEN Ret(w, hooks, Panic("insert_new_entry"))
            ELSE
                LET w1 == insert_entry(w, MintOutputOutcomeKey(out_point),
                                       sign_blinded_msg(output.blind_nonce, amount_key))
                IN  IF ~is_new_entry(w1, AuditIssuance(out_point))
                    THEN Ret(w1, hooks, Panic("insert_new_entry"))
                    ELSE
                        LET w2 == insert_entry(w1, AuditIssuance(out_point), output.amount)
                            amount == output.amount
                            fee == fee_consensus.note_issuance_abs
                        IN  Ret(w2,
                                calculate_mint_issued_ecash_metrics(hooks, amount, fee),
                                Ok([amount |-> amount, fee |-> fee]))

RECURSIVE remove_entries(_, _)
\* the loop `for key in remove_audit_keys { dbtx.remove_entry(&key) }`
remove_entries(w, keys) ==
    IF keys = {} THEN w
    ELSE LET k == CHOOSE x \in keys : TRUE
         IN remove_entries(remove_entry(w, k), keys \ {k})

\* the closure of audit.add_items: issuances count negative, redemptions positive
audit_sign(k, v) ==
    IF k[1] \in {"Issuance", "IssuanceTotal"} THEN 0 - v ELSE v

\* audit as it would be if it left the items it summed in place
audit_items_kept(w, hooks) ==
    LET found == find_by_prefix(w, MintAuditItemKeys)
        val == [k \in found |-> Unwrap(get_value(w, k))]
        issuances == SumOf({k \in found : k[1] \in {"Issuance", "IssuanceTotal"}}, val)
        redemptions == SumOf({k \in found : k[1] \in {"Redemption", "RedemptionTotal"}}, val)
        w1 == w
        w2 == insert_entry(w1, AuditIssuanceTotal, issuances)
        w3 == insert_entry(w2, AuditRedemptionTotal, redemptions)
        items == {<<k, audit_sign(k, Unwrap(get_value(w3, k)))>> :
                    k \in find_by_prefix(w3, MintAuditItemKeys)}
    IN  Ret(w3, hooks, Ok(items))


\* audit as it would be if it summed the open items only
audit_total_reset(w, hooks) ==
    LET found == find_by_prefix(w, MintAuditItemKeys)
        val == [k \in found |-> Unwrap(get_value(w, k))]
        issuances == SumOf({k \in found : k[1] \in {"Issuance"}}, val)
        redemptions == SumOf({k \in found : k[1] \in {"Redemption"}}, val)
        w1 == remove_entries(w, found)
        w2 == insert_entry(w1, AuditIssuanceTotal, issuances)
        w3 == insert_entry(w2, AuditRedemptionTotal, redemptions)
        items == {<<k, audit_sign(k, Unwrap(get_value(w3, k)))>> :
                    k \in find_by_prefix(w3, MintAuditItemKeys)}
    IN  Ret(w3, hooks, Ok(items))


\* audit as it would be if it removed what a prefix of every key finds
audit_all_keys(w, hooks) ==
    LET found == find_by_prefix(w, MintAuditItemKeys)
        val == [k \in found |-> Unwrap(get_value(w, k))]
        issuances == SumOf({k \in found : k[1] \in {"Issuance", "IssuanceTotal"}}, val)
        redemptions == SumOf({k \in found : k[1] \in {"Redemption", "RedemptionTotal"}}, val)
        w1 == remove_entries(w, find_by_prefix(w, Keys))
        w2 == insert_entry(w1, AuditIssuanceTotal, issuances)
        w3 == insert_entry(w2, AuditRedemptionTotal, redemptions)
        items == {<<k, audit_sign(k, Unwrap(get_value(w3, k)))>> :
                    k \in find_by_prefix(w3, MintAuditItemKeys)}
    IN  Ret(w3, hooks, Ok(items))


\* Mint::audit
audit(w, hooks) ==
    LET found == find_by_prefix(w, MintAuditItemKeys)
        val == [k \in found |-> Unwrap(get_value(w, k))]
        issuances == SumOf({k \in found : k[1] \in {"Issuance", "IssuanceTotal"}}, val)
        redemptions == SumOf({k \in found : k[1] \in {"Redemption", "RedemptionTotal"}}, val)
        w1 == remove_entries(w, found)
        w2 == insert_entry(w1, AuditIssuanceTotal, issuances)
        w3 == insert_entry(w2, AuditRedemptionTotal, redemptions)
        items == {<<k, audit_sign(k, Unwrap(get_value(w3, k)))>> :
                    k \in find_by_prefix(w3, MintAuditItemKeys)}
    IN  Ret(w3, hooks, Ok(items))

\* handle_backup_request as it would be if a snapshot of the stored timestamp
\* replaced the stored one
handle_backup_request_equal(w, hooks, request) ==
    IF ~request.valid THEN Ret(w, hooks, Err("invalid request"))
    ELSE
        LET prev == get_value(w, EcashBackupKey(request.id))
        IN  IF IsSome(prev) /\ request.timestamp < Unwrap(prev).timestamp
            THEN Ret(w, hooks, Err("timestamp too small"))
            ELSE Ret(insert_entry(w, EcashBackupKey(request.id),
                                  [timestamp |-> request.timestamp, data |-> request.payload]),
                     hooks, Ok("unit"))

\* handle_backup_request as it would be if it stored before it verified
handle_backup_request_unverified(w, hooks, request) ==
    LET prev == get_value(w, EcashBackupKey(request.id))
    IN  IF IsSome(prev) /\ request.timestamp <= Unwrap(prev).timestamp
        THEN Ret(w, hooks, Err("timestamp too small"))
        ELSE Ret(insert_entry(w, EcashBackupKey(request.id),
                              [timestamp |-> request.timestamp, data |-> request.payload]),
                 hooks, IF request.valid THEN Ok("unit") ELSE Err("invalid request"))

\* handle_backup_request as it would be if the last request won
handle_backup_request_last_wins(w, hooks, request) ==
    IF ~request.valid THEN Ret(w, hooks, Err("invalid request"))
    ELSE Ret(insert_entry(w, EcashBackupKey(request.id),
                          [timestamp |-> request.timestamp, data |-> request.payload]),
             hooks, Ok("unit"))

\* Mint::handle_backup_request
handle_backup_request(w, hooks, request) ==
    IF ~request.valid THEN Ret(w, hooks, Err("invalid request"))
    ELSE
        LET prev == get_value(w, EcashBackupKey(request.id))
        IN  IF IsSome(prev) /\ request.timestamp <= Unwrap(prev).timestamp
            THEN Ret(w, hooks, Err("timestamp too small"))
            ELSE Ret(insert_entry(w, EcashBackupKey(request.id),
                                  [timestamp |-> request.timestamp, data |-> request.payload]),
                     hooks, Ok("unit"))

\* handle_recover_request as it would be if it took the snapshot out
handle_recover_request_takes(w, hooks, id) ==
    Ret(remove_entry(w, EcashBackupKey(id)), hooks, Ok(get_value(w, EcashBackupKey(id))))

\* handle_recover_request as it would be if it read past the transaction
handle_recover_request_committed(w, hooks, id) ==
    Ret(w, hooks, Ok(db[EcashBackupKey(id)]))

\* Mint::handle_recover_request
handle_recover_request(w, hooks, id) ==
    Ret(w, hooks, Ok(get_value(w, EcashBackupKey(id))))

\* process_consensus_item as it would be if it accepted the item
process_consensus_item_accepts(w, hooks, consensus_item, peer_id) ==
    Ret(w, hooks, Ok("unit"))

\* Mint::process_consensus_item
process_consensus_item(w, hooks, consensus_item, peer_id) ==
    Ret(w, hooks, Err("Mint does not process consensus items"))

\* Mint::consensus_proposal
consensus_proposal(w, hooks) == Ret(w, hooks, Ok(<<>>))

(***************************************************************************)
(* The state machine: transactions begin, run handlers, commit or abort.   *)
(***************************************************************************)
Init ==
    /\ db = [k \in Keys |-> None]
    /\ tx = [t \in Txs |-> IdleTx]
    /\ last = [op |-> "none"]
    /\ metrics = [m \in Metrics |-> [count |-> 0, sum |-> 0]]
    /\ ledger = [redeemed |-> [n \in Nonces |-> 0], issued |-> [op \in OutPoints |-> 0],
                 redeemed_msat |-> 0, issued_msat |-> 0, rolled |-> None]
    /\ NoQuery
    /\ NoCalls

Begin(t) ==
    /\ tx[t].st = "idle"
    /\ \A u \in Txs : u < t => tx[u].st = "open"
    /\ tx' = [tx EXCEPT ![t] = [IdleTx EXCEPT !.st = "open"]]
    /\ last' = [op |-> "begin"]
    /\ UNCHANGED <<db, metrics, ledger, qvars, kvars>>

\* a handler ran in transaction t and left r; a panic drops the transaction
Ran(t, r) ==
    IF r.res.panic
    THEN tx' = [tx EXCEPT ![t] = IdleTx]
    ELSE tx' = [tx EXCEPT ![t].writes = r.w, ![t].hooks = r.hooks]

ProcessInput(t, input) ==
    /\ tx[t].st = "open"
    /\ LET r == process_input(tx[t].writes, tx[t].hooks, input)
       IN  /\ IF r.res.panic
              THEN tx' = [tx EXCEPT ![t] = IdleTx]
              ELSE IF r.res.ok
              THEN tx' = [tx EXCEPT ![t].writes = r.w, ![t].hooks = r.hooks,
                                    ![t].ins[input.note.nonce] = @ + 1,
                                    ![t].in_msat = @ + input.amount]
              ELSE tx' = [tx EXCEPT ![t].writes = r.w, ![t].hooks = r.hooks]
           /\ last' = [op |-> "process_input", tx |-> t, arg |-> input, res |-> r.res]
    /\ UNCHANGED <<db, metrics, ledger, qvars, kvars>>

ProcessOutput(t, output, out_point) ==
    /\ tx[t].st = "open"
    /\ LET r == process_output(tx[t].writes, tx[t].hooks, output, out_point)
       IN  /\ IF r.res.panic
              THEN tx' = [tx EXCEPT ![t] = IdleTx]
              ELSE IF r.res.ok
              THEN tx' = [tx EXCEPT ![t].writes = r.w, ![t].hooks = r.hooks,
                                    ![t].outs[out_point] = @ + 1,
                                    ![t].out_msat = @ + output.amount]
              ELSE tx' = [tx EXCEPT ![t].writes = r.w, ![t].hooks = r.hooks]
           /\ last' = [op |-> "process_output", tx |-> t, arg |-> output,
                       out_point |-> out_point, res |-> r.res]
    /\ UNCHANGED <<db, metrics, ledger, qvars, kvars>>

\* what a roll-up shows, read in the view of the transaction that made it:
\* each total minus the sum of the items of its kind that are still open
Observed(w) ==
    LET val(k) == IF IsSome(get_value(w, k)) THEN Unwrap(get_value(w, k)) ELSE 0
        open_iss == [k \in {AuditIssuance(op) : op \in OutPoints} |-> val(k)]
        open_red == [k \in {AuditRedemption(n) : n \in Nonces} |-> val(k)]
    IN  [iss |-> val(AuditIssuanceTotal) - SumOf(DOMAIN open_iss, open_iss),
         red |-> val(AuditRedemptionTotal) - SumOf(DOMAIN open_red, open_red)]

Audit(t) ==
    /\ tx[t].st = "open"
    /\ LET r == audit(tx[t].writes, tx[t].hooks)
       IN  /\ tx' = [tx EXCEPT ![t].writes = r.w, ![t].hooks = r.hooks,
                                 ![t].rolled = Some(Observed(r.w))]
           /\ last' = [op |-> "audit", tx |-> t, res |-> r.res]
    /\ UNCHANGED <<db, metrics, ledger, qvars, kvars>>

Backup(t, request) ==
    /\ tx[t].st = "open"
    /\ LET r == handle_backup_request(tx[t].writes, tx[t].hooks, request)
       IN  /\ Ran(t, r)
           /\ last' = [op |-> "backup", tx |-> t, arg |-> request, res |-> r.res]
    /\ UNCHANGED <<db, metrics, ledger, qvars, kvars>>

Recover(t, id) ==
    /\ tx[t].st = "open"
    /\ LET r == handle_recover_request(tx[t].writes, tx[t].hooks, id)
       IN  /\ Ran(t, r)
           /\ last' = [op |-> "recover", tx |-> t, arg |-> id, res |-> r.res]
    /\ UNCHANGED <<db, metrics, ledger, qvars, kvars>>

ProcessConsensusItem(t, item, peer) ==
    /\ tx[t].st = "open"
    /\ LET r == process_consensus_item(tx[t].writes, tx[t].hooks, item, peer)
       IN  /\ Ran(t, r)
           /\ last' = [op |-> "process_consensus_item", tx |-> t,
                       arg |-> [item |-> item, peer |-> peer], res |-> r.res]
    /\ UNCHANGED <<db, metrics, ledger, qvars, kvars>>

ConsensusProposal(t) ==
    /\ tx[t].st = "open"
    /\ LET r == consensus_proposal(tx[t].writes, tx[t].hooks)
       IN  /\ Ran(t, r)
           /\ last' = [op |-> "consensus_proposal", tx |-> t, res |-> r.res]
    /\ UNCHANGED <<db, metrics, ledger, qvars, kvars>>

\* Histogram::observe
observe(h, v) == [count |-> h.count + 1, sum |-> h.sum + v]

RECURSIVE run_hooks(_, _)
\* the on-commit hooks run in the order they were scheduled
run_hooks(m, hooks) ==
    IF hooks = <<>> THEN m
    ELSE LET h == Head(hooks)
             sats == "mint_" \o h.metric \o "_ecash_sats"
             fees == "mint_" \o h.metric \o "_ecash_fees_sats"
         IN run_hooks([m EXCEPT ![sats] = observe(@, h.amount),
                                ![fees] = observe(@, h.fee)], Tail(hooks))

\* DatabaseTransaction::commit_tx: the first writer of a key wins
Commit(t) ==
    /\ tx[t].st = "open"
    /\ IF tx[t].doomed
       THEN /\ tx' = [tx EXCEPT ![t] = IdleTx]
            /\ last' = [op |-> "commit", tx |-> t, res |-> Err("conflict"),
                        ins |-> tx[t].ins, outs |-> tx[t].outs]
            /\ UNCHANGED <<db, metrics, ledger>>
       ELSE /\ db' = [k \in Keys |-> get_value(tx[t].writes, k)]
            /\ tx' = [u \in Txs |->
                        IF u = t THEN IdleTx
                        ELSE IF tx[u].st = "open"
                                /\ DOMAIN tx[u].writes \cap DOMAIN tx[t].writes # {}
                        THEN [tx[u] EXCEPT !.doomed = TRUE]
                        ELSE tx[u]]
            /\ metrics' = run_hooks(metrics, tx[t].hooks)
            /\ ledger' = [redeemed |-> [n \in Nonces |-> ledger.redeemed[n] + tx[t].ins[n]],
                          issued |-> [op \in OutPoints |-> ledger.issued[op] + tx[t].outs[op]],
                          redeemed_msat |-> ledger.redeemed_msat + tx[t].in_msat,
                          issued_msat |-> ledger.issued_msat + tx[t].out_msat,
                          rolled |-> IF IsSome(tx[t].rolled) THEN tx[t].rolled
                                     ELSE ledger.rolled]
            /\ last' = [op |-> "commit", tx |-> t, res |-> Ok("unit"),
                        ins |-> tx[t].ins, outs |-> tx[t].outs]
    /\ UNCHANGED <<qvars, kvars>>

\* the transaction is dropped without a commit
Abort(t) ==
    /\ tx[t].st = "open"
    /\ tx' = [tx EXCEPT ![t] = IdleTx]
    /\ last' = [op |-> "abort", tx |-> t, ins |-> tx[t].ins, outs |-> tx[t].outs]
    /\ UNCHANGED <<db, metrics, ledger, qvars, kvars>>

\* one transaction at a time: a transaction begins when no other is open
BeginSerial(t) ==
    /\ \A u \in Txs : tx[u].st = "idle"
    /\ Begin(t)

\* a roll-up that runs in a transaction of its own
AuditAlone(t) ==
    /\ tx[t].writes = <<>>
    /\ Audit(t)

\* a redemption in a transaction that has rolled nothing up
ProcessInputOnly(t, input) ==
    /\ AuditIssuanceTotal \notin DOMAIN tx[t].writes
    /\ ProcessInput(t, input)

\* notes are redeemed by concurrent transactions and rolled up by transactions
\* of their own
NextInput ==
    \/ \E t \in Txs : Begin(t)
    \/ \E t \in Txs, input \in GenuineInputs : ProcessInputOnly(t, input)
    \/ \E t \in Txs : AuditAlone(t)
    \/ \E t \in Txs : Commit(t)
    \/ \E t \in Txs : Abort(t)

SpecInput == Init /\ [][NextInput]_vars

\* an issuance in a transaction that has rolled nothing up
ProcessOutputOnly(t, output, out_point) ==
    /\ AuditIssuanceTotal \notin DOMAIN tx[t].writes
    /\ ProcessOutput(t, output, out_point)

\* outputs are issued by concurrent transactions and rolled up by
\* transactions of their own
NextOutput ==
    \/ \E t \in Txs : Begin(t)
    \/ \E t \in Txs, out_point \in OutPoints :
            ProcessOutputOnly(t, OutputAt(out_point), out_point)
    \/ \E t \in Txs : AuditAlone(t)
    \/ \E t \in Txs : Commit(t)
    \/ \E t \in Txs : Abort(t)

SpecOutput == Init /\ [][NextOutput]_vars

\* the consensus items the module can be handed, and the peers they come from
MintConsensusItems == {"item", "other item"}
ConsensusPeers == {0, 1}

\* a backup request is served in a transaction of its own (api_endpoints)
BackupAlone(t, request) ==
    /\ tx[t].writes = <<>>
    /\ Backup(t, request)

\* the transaction serves no backup request
NoBackup(t) == \A id \in BackupIds : EcashBackupKey(id) \notin DOMAIN tx[t].writes

\* redemption, issuance and roll-up with every request the handlers can be
\* given, one transaction after the other
NextLedger ==
    \/ \E t \in Txs : BeginSerial(t)
    \/ \E t \in Txs, input \in MintInputs : ProcessInput(t, input)
    \/ \E t \in Txs, out_point \in OutPoints :
            \E output \in OutputsAt(out_point) : ProcessOutput(t, output, out_point)
    \/ \E t \in Txs : Audit(t)
    \/ \E t \in Txs : Commit(t)
    \/ \E t \in Txs : Abort(t)

SpecLedger == Init /\ [][NextLedger]_vars

\* the two transactions that race each other
RacingTxs == {1, 2}
\* inputs process_input refuses whatever is stored: of an unknown variant, of
\* an unknown tier, with a signature that does not verify under the tier's key
RefusedInputs == {input \in MintInputs : input.note.nonce = 1 /\ input.amount # TierOf(1)}

\* a transaction redeems before it issues: how it mixes the two is left out
ProcessInputFirst(t, input) ==
    /\ SumOf(OutPoints, tx[t].outs) = 0
    /\ ProcessInput(t, input)

\* redemption and issuance by two concurrent transactions that commit, fail
\* to commit or are dropped
NextMetrics ==
    \/ \E t \in RacingTxs : Begin(t)
    \/ \E t \in RacingTxs, input \in GenuineInputs \cup RefusedInputs :
            ProcessInputFirst(t, input)
    \/ \E t \in RacingTxs, out_point \in OutPoints :
            \E output \in OutputsAt(out_point) : ProcessOutput(t, output, out_point)
    \/ \E t \in RacingTxs : Commit(t)
    \/ \E t \in RacingTxs : Abort(t)

SpecMetrics == Init /\ [][NextMetrics]_vars

\* backup and recover requests served by concurrent transactions, each
\* request in a transaction of its own, that commit, fail to commit or are
\* dropped
NextBackup ==
    \/ \E t \in Txs : Begin(t)
    \/ \E t \in Txs, request \in SignedBackupRequests : BackupAlone(t, request)
    \/ \E t \in Txs, id \in BackupIds : Recover(t, id)
    \/ \E t \in Txs : Commit(t)
    \/ \E t \in Txs : Abort(t)

SpecBackup == Init /\ [][NextBackup]_vars

\* every operation of the module, one transaction after the other
Next ==
    \/ \E t \in Txs : BeginSerial(t)
    \/ \E t \in Txs, input \in GenuineInputs : NoBackup(t) /\ ProcessInput(t, input)
    \/ \E t \in Txs, out_point \in OutPoints :
            NoBackup(t) /\ ProcessOutput(t, OutputAt(out_point), out_point)
    \/ \E t \in Txs : NoBackup(t) /\ Audit(t)
    \/ \E t \in Txs, request \in SignedBackupRequests : BackupAlone(t, request)
    \/ \E t \in Txs, id \in BackupIds : Recover(t, id)
    \/ \E t \in Txs, item \in MintConsensusItems, peer \in ConsensusPeers :
            ProcessConsensusItem(t, item, peer)
    \/ \E t \in Txs : ConsensusProposal(t)
    \/ \E t \in Txs : Commit(t)
    \/ \E t \in Txs : Abort(t)

Spec == Init /\ [][Next]_vars

(***************************************************************************)
(* Properties of redemption under concurrent transactions (SpecInput).     *)
(***************************************************************************)
\* the input is a V0 input of a known tier whose note verifies under that tier
ValidInput(input) ==
    /\ input.variant = "V0"
    /\ input.amount \in DOMAIN pub_key
    /\ verify(input.note, pub_key[input.amount])

\* C1: whatever transactions are prepared concurrently with inputs of the
\* same nonce, the redemptions of a nonce that reach the committed store
\* number at most one.
NoDoubleSpend == \A n \in Nonces : ledger.redeemed[n] <= 1

\* C1 witness: a transaction in which process_input accepted a nonce fails
\* to commit because another transaction redeemed the nonce first.
LoserOfRaceRejected ==
    /\ last.op = "commit"
    /\ last.res = Err("conflict")
    /\ \E n \in Nonces : last.ins[n] >= 1 /\ ledger.redeemed[n] = 1

\* C2: in one transaction, process_input on a valid note whose nonce the
\* transaction does not see yet returns Ok, and process_input on a note the
\* same transaction has already accepted returns SpentCoin.
SecondSpendInTxRejected ==
    [][last'.op = "process_input" /\ ValidInput(last'.arg) =>
        LET t == last'.tx
            n == last'.arg.note.nonce
        IN  /\ ~IsSome(get_value(tx[t].writes, NonceKey(n))) => last'.res.ok
            /\ tx[t].ins[n] >= 1 => last'.res = Err("SpentCoin")]_vars

\* C2 witness: the second process_input of a transaction on a nonce that only
\* this transaction has written returned SpentCoin.
SecondSpendInTxSeen ==
    /\ last.op = "process_input"
    /\ last.res = Err("SpentCoin")
    /\ tx[last.tx].ins[last.arg.note.nonce] = 1
    /\ ~IsSome(db[NonceKey(last.arg.note.nonce)])

\* C4: aborting a transaction leaves the committed store and every other
\* transaction as they were; a nonce that process_input accepted in the
\* aborted transaction and that no committed transaction has spent is not in
\* the store, has no Redemption audit entry there, and process_input accepts
\* its note in a new transaction.
AbortConsumesNothing ==
    [][last'.op = "abort" =>
        /\ db' = db
        /\ \A u \in Txs \ {last'.tx} : tx'[u] = tx[u]
        /\ \A n \in Nonces :
              last'.ins[n] >= 1 /\ ledger.redeemed[n] = 0 =>
                /\ ~IsSome(db'[NonceKey(n)])
                /\ ~IsSome(db'[AuditRedemption(n)])
                /\ (process_input(<<>>, <<>>, GenuineInput(n)).res.ok)']_vars

\* C4 witness: a transaction that accepted a nonce has just been aborted and
\* the nonce is unspent.
AbortedAfterOk ==
    /\ last.op = "abort"
    /\ \E n \in Nonces : last.ins[n] >= 1 /\ ~IsSome(db[NonceKey(n)])
(***************************************************************************)
(* Properties of the handlers, one transaction after the other             *)
(* (SpecLedger).                                                           *)
(***************************************************************************)
\* the value a transaction with write set w reads under key k, 0 when absent
ValueOr0(w, k) == IF IsSome(get_value(w, k)) THEN Unwrap(get_value(w, k)) ELSE 0

\* C3: process_input on a V0 input whose amount is no tier of the mint returns
\* InvalidAmountTier; on one whose amount is a tier but whose note does not
\* verify under the key of that tier it returns InvalidSignature; after either
\* error the transaction's entries and the store are what they were.
InvalidInputRejected ==
    [][last'.op = "process_input" /\ last'.arg.variant = "V0" =>
        \A t \in Txs : last'.tx = t =>
          LET i == last'.arg
              tier_error == Err("InvalidAmountTier")
              sig_error == Err("InvalidSignature")
          IN  /\ i.amount \notin Tiers => last'.res = tier_error
              /\ i.amount \in Tiers
                   /\ i.note.signature # Signature(i.note.nonce, pub_key[i.amount])
                   => last'.res = sig_error
              /\ last'.res \in {tier_error, sig_error} =>
                    /\ tx'[t] = tx[t]
                    /\ db' = db]_vars

\* C3 witness: a transaction with entries of its own has just had a note with
\* a forged signature refused.
ForgedNoteRefused ==
    /\ last.op = "process_input"
    /\ last.res = Err("InvalidSignature")
    /\ last.arg.note.signature = Signature(last.arg.note.nonce, ForgedKey)
    /\ tx[last.tx].writes # <<>>

\* C6: a process_input that returns Ok has added to its transaction exactly
\* the entries NonceKey(nonce) -> () and Redemption(NonceKey(nonce)) -> amount,
\* neither of which the transaction saw before, and returns the amount, the
\* fee note_spend_abs and the note's spend key.
RedemptionWrites ==
    [][last'.op = "process_input" /\ last'.res.ok =>
        \A t \in Txs : last'.tx = t =>
          LET i == last'.arg
              n == i.note.nonce
              new == {NonceKey(n), AuditRedemption(n)}
          IN  /\ \A k \in new : ~IsSome(get_value(tx[t].writes, k))
              /\ DOMAIN tx'[t].writes = DOMAIN tx[t].writes \cup new
              /\ \A k \in DOMAIN tx[t].writes \ new : tx'[t].writes[k] = tx[t].writes[k]
              /\ tx'[t].writes[NonceKey(n)] = Some("unit")
              /\ tx'[t].writes[AuditRedemption(n)] = Some(i.amount)
              /\ last'.res.val = [amount |-> i.amount,
                                  fee |-> fee_consensus.note_spend_abs,
                                  pub_key |-> i.note.nonce]
              /\ db' = db]_vars

\* C6 witness: process_input has just returned Ok in a transaction that
\* already held other entries.
RedemptionAccepted ==
    /\ last.op = "process_input"
    /\ last.res.ok
    /\ \E k \in DOMAIN tx[last.tx].writes : k[1] \notin {"NoteNonce", "Redemption"}

AuditRollsUp ==
    [][last'.op = "audit" =>
        \A t \in Txs : last'.tx = t =>
          LET w == tx[t].writes
              items_iss == {AuditIssuance(op) : op \in OutPoints}
              items_red == {AuditRedemption(n) : n \in Nonces}
              before == [k \in MintAuditItemKeys |-> ValueOr0(w, k)]
          IN  /\ \A k \in items_iss \cup items_red : ~IsSome(get_value(tx[t].writes, k))'
              /\ get_value(tx[t].writes, AuditIssuanceTotal)' =
                    Some(before[AuditIssuanceTotal] + SumOf(items_iss, before))
              /\ get_value(tx[t].writes, AuditRedemptionTotal)' =
                    Some(before[AuditRedemptionTotal] + SumOf(items_red, before))]_vars

\* C9 witness: a roll-up has just folded an open Redemption item into the
\* totals of an earlier, committed roll-up whose IssuanceTotal was not zero.
SecondRollUp ==
    /\ last.op = "audit"
    /\ IsSome(ledger.rolled)
    /\ Unwrap(ledger.rolled).iss > 0
    /\ Unwrap(tx[last.tx].rolled).iss = Unwrap(ledger.rolled).iss
    /\ Unwrap(tx[last.tx].rolled).red > Unwrap(ledger.rolled).red

\* C10: what a roll-up shows, IssuanceTotal minus the open Issuance items and
\* RedemptionTotal minus the open Redemption items, is never less than what
\* the roll-up before it showed (the one before it in the same transaction, or
\* else the last one committed).
RollUpMonotonic ==
    [][last'.op = "audit" =>
        \A t \in Txs : last'.tx = t =>
          LET prev == IF IsSome(tx[t].rolled) THEN tx[t].rolled ELSE ledger.rolled
          IN  IsSome(prev) =>
                /\ Unwrap(tx'[t].rolled).iss >= Unwrap(prev).iss
                /\ Unwrap(tx'[t].rolled).red >= Unwrap(prev).red]_vars

\* C10 witness: a roll-up shows a larger IssuanceTotal than the committed
\* roll-up before it, whose totals it kept.
RollUpGrew ==
    /\ last.op = "audit"
    /\ IsSome(ledger.rolled)
    /\ Unwrap(tx[last.tx].rolled).iss > Unwrap(ledger.rolled).iss
    /\ Unwrap(tx[last.tx].rolled).red >= Unwrap(ledger.rolled).red
    /\ Unwrap(ledger.rolled).red > 0
(***************************************************************************)
(* Properties of issuance under concurrent transactions (SpecOutput).      *)
(***************************************************************************)
\* C8: the outcome of an OutPoint is written at most once, in a transaction
\* and in the committed store; a process_output for an OutPoint whose outcome
\* its transaction already sees does not return: it writes nothing and the
\* transaction is dropped, so the outcome that is there stays.
OutcomeWrittenOnce ==
    [][/\ \A op \in OutPoints :
            /\ ledger'.issued[op] <= 1
            /\ \A t \in Txs : tx'[t].outs[op] <= 1
       /\ last'.op = "process_output" =>
            \A t \in Txs : last'.tx = t =>
              (IsSome(get_value(tx[t].writes, MintOutputOutcomeKey(last'.out_point))) =>
                /\ last'.res.panic
                /\ tx'[t] = IdleTx
                /\ db' = db)]_vars

\* C8 witness: a process_output for an OutPoint whose outcome is committed
\* has just been refused.
SecondOutcomeRefused ==
    /\ last.op = "process_output"
    /\ last.res.panic
    /\ ledger.issued[last.out_point] = 1
    /\ IsSome(db[MintOutputOutcomeKey(last.out_point)])

(***************************************************************************)
(* Properties of all operations of the module (Spec).                      *)
(***************************************************************************)
\* C5: no step removes a NonceKey from the committed store, and no
\* transaction ever holds the removal of a NonceKey among its writes.
NoncesImmortal ==
    [][\A n \in Nonces :
        /\ IsSome(db[NonceKey(n)]) => IsSome(db'[NonceKey(n)])
        /\ \A t \in Txs :
              NonceKey(n) \in DOMAIN tx'[t].writes => IsSome(tx'[t].writes[NonceKey(n)])]_vars

\* C5 witness: a nonce is still in the committed store after its Redemption
\* item was rolled up, an output was issued and a backup was stored.
NonceOutlivesRollUp ==
    \E n \in Nonces :
        /\ IsSome(db[NonceKey(n)])
        /\ ~IsSome(db[AuditRedemption(n)])
        /\ IsSome(db[AuditRedemptionTotal])
        /\ \E op \in OutPoints : IsSome(db[MintOutputOutcomeKey(op)])
        /\ \E id \in BackupIds : IsSome(db[EcashBackupKey(id)])
(***************************************************************************)
(* The query strategies of the client (fedimint-core/src/query.rs).  A     *)
(* strategy is a record of its kind and its fields; process returns the    *)
(* strategy afterwards and the QueryStep.  A map is a function on the      *)
(* peers that have an entry; a failed assert! is the step Panicked.        *)
(***************************************************************************)
\* the largest federation a request is made to
MaxPeers == 4
\* the largest reading of the clock
MaxClock == 2

\* PeerId: the peers of a federation of n are 0 .. n-1
PeersOf(n) == 0..(n - 1)
\* the values peers answer with
Values == {"V", "W", "X"}
\* the vectors peers answer a union query with
Vecs == {<<>>, <<"a">>, <<"b">>, <<"a", "b">>, <<"b", "a">>, <<"a", "a">>}
\* PeerResult: Ok(response) or Err(PeerError)
PeerResults == {Ok(v) : v \in Values} \cup {Err("Transport")}
VecResults == {Ok(v) : v \in Vecs} \cup {Err("Transport")}
\* the results fed to AllOrDeadline, which does not look into a response
DeadlineResults == {Ok("V"), Ok("W"), Err("Transport")}
\* PeerError::InvalidResponse
InvalidResponse(e) == "InvalidResponse: " \o e

\* QueryStep
Retry(peers) == [tag |-> "Retry", peers |-> peers]
Continue == [tag |-> "Continue"]
Success(r) == [tag |-> "Success", val |-> r]
Failure(general, peers) == [tag |-> "Failure", general |-> general, peers |-> peers]
\* an assert! of the strategy failed
Panicked == [tag |-> "Panic"]

\* BTreeMap::insert: the map afterwards
map_insert(m, k, v) == [x \in DOMAIN m \cup {k} |-> IF x = k THEN v ELSE m[x]]
\* BTreeMap::len
map_len(m) == Cardinality(DOMAIN m)
\* (total_peers - 1) / 3
max_evil(total_peers) == (total_peers - 1) \div 3

\* the fields of a strategy that its kind does not have
Fields ==
    [kind |-> "none", errors |-> <<>>, error_threshold |-> 0, threshold |-> 0,
     filtered_responses |-> <<>>, responses |-> <<>>, retry |-> {}, union |-> <<>>,
     deadline |-> 0, num_peers |-> 0]

\* ErrorStrategy::new
ErrorStrategy_new(s, threshold) ==
    [s EXCEPT !.errors = <<>>, !.error_threshold = threshold]

\* ErrorStrategy::format_errors and the message of the Failure
format_errors(errors, threshold) == <<"Received errors from", threshold, errors>>

\* ErrorStrategy::process as it would be if the Failure carried a copy of the
\* errors and the strategy kept its own
ErrorStrategy_process_keeps(s, peer, error) ==
    IF peer \in DOMAIN s.errors THEN [s |-> s, out |-> Panicked]
    ELSE
        LET errors == map_insert(s.errors, peer, error)
        IN  IF map_len(errors) = s.error_threshold
            THEN [s |-> [s EXCEPT !.errors = errors],
                  out |-> Failure(Some(format_errors(errors, s.error_threshold)), errors)]
            ELSE [s |-> [s EXCEPT !.errors = errors], out |-> Continue]

\* ErrorStrategy::process
ErrorStrategy_process(s, peer, error) ==
    IF peer \in DOMAIN s.errors THEN [s |-> s, out |-> Panicked]
    ELSE
        LET errors == map_insert(s.errors, peer, error)
        IN  IF map_len(errors) = s.error_threshold
            THEN [s |-> [s EXCEPT !.errors = <<>>],
                  out |-> Failure(Some(format_errors(errors, s.error_threshold)), errors)]
            ELSE [s |-> [s EXCEPT !.errors = errors], out |-> Continue]

\* the closure a FilterMap is built with: it refuses "X" and wraps the rest
filter_map(response) ==
    IF response = "X" THEN Err("refused") ELSE Ok(<<"checked", response>>)
\* the closure a FilterMapThreshold is built with: it also sees the peer
verifier(peer, response) ==
    IF response = "X" THEN Err("refused") ELSE Ok(<<"checked", peer, response>>)

\* FilterMap::new
FilterMap_new(total_peers) ==
    ErrorStrategy_new([Fields EXCEPT !.kind = "FilterMap"], max_evil(total_peers) + 1)

\* FilterMap::process as it would be if a response the filter refuses were
\* passed over without counting against the peer
FilterMap_process_passes_over(s, peer, result) ==
    IF result.ok
    THEN LET filtered == filter_map(result.val)
         IN  IF filtered.ok THEN [s |-> s, out |-> Success(filtered.val)]
             ELSE [s |-> s, out |-> Continue]
    ELSE ErrorStrategy_process(s, peer, result.err)

\* FilterMap::process
FilterMap_process(s, peer, result) ==
    IF result.ok
    THEN LET filtered == filter_map(result.val)
         IN  IF filtered.ok THEN [s |-> s, out |-> Success(filtered.val)]
             ELSE ErrorStrategy_process(s, peer, InvalidResponse(filtered.err))
    ELSE ErrorStrategy_process(s, peer, result.err)

\* FilterMapThreshold::new
FilterMapThreshold_new(total_peers) ==
    ErrorStrategy_new([Fields EXCEPT !.kind = "FilterMapThreshold",
                                     !.threshold = total_peers - max_evil(total_peers)],
                      max_evil(total_peers) + 1)

\* FilterMapThreshold::process as it would be if the number of accepted
\* responses were compared with the threshold before the insertion
FilterMapThreshold_process_late(s, peer, result) ==
    IF result.ok
    THEN LET filtered == verifier(peer, result.val)
         IN  IF filtered.ok
             THEN LET filtered_responses ==
                          map_insert(s.filtered_responses, peer, filtered.val)
                  IN  IF map_len(s.filtered_responses) = s.threshold
                      THEN [s |-> [s EXCEPT !.filtered_responses = <<>>],
                            out |-> Success(filtered_responses)]
                      ELSE [s |-> [s EXCEPT !.filtered_responses = filtered_responses],
                            out |-> Continue]
             ELSE ErrorStrategy_process(s, peer, InvalidResponse(filtered.err))
    ELSE ErrorStrategy_process(s, peer, result.err)

\* FilterMapThreshold::process
FilterMapThreshold_process(s, peer, result) ==
    IF result.ok
    THEN LET filtered == verifier(peer, result.val)
         IN  IF filtered.ok
             THEN LET filtered_responses ==
                          map_insert(s.filtered_responses, peer, filtered.val)
                  IN  IF map_len(filtered_responses) = s.threshold
                      THEN [s |-> [s EXCEPT !.filtered_responses = <<>>],
                            out |-> Success(filtered_responses)]
                      ELSE [s |-> [s EXCEPT !.filtered_responses = filtered_responses],
                            out |-> Continue]
             ELSE ErrorStrategy_process(s, peer, InvalidResponse(filtered.err))
    ELSE ErrorStrategy_process(s, peer, result.err)

\* ThresholdConsensus::new as it would be if it gave the ErrorStrategy the
\* threshold of the responses
ThresholdConsensus_new_one_threshold(total_peers) ==
    ErrorStrategy_new([Fields EXCEPT !.kind = "ThresholdConsensus",
                                     !.threshold = total_peers - max_evil(total_peers)],
                      total_peers - max_evil(total_peers))

\* ThresholdConsensus::new as it would be if the ErrorStrategy failed at
\* max_evil errors
ThresholdConsensus_new_max_evil(total_peers) ==
    ErrorStrategy_new([Fields EXCEPT !.kind = "ThresholdConsensus",
                                     !.threshold = total_peers - max_evil(total_peers)],
                      max_evil(total_peers))

\* ThresholdConsensus::new as it would be if max_evil copies of a response
\* were enough
ThresholdConsensus_new_evil_suffice(total_peers) ==
    ErrorStrategy_new([Fields EXCEPT !.kind = "ThresholdConsensus",
                                     !.threshold = max_evil(total_peers)],
                      max_evil(total_peers) + 1)

\* ThresholdConsensus::new
ThresholdConsensus_new(total_peers) ==
    ErrorStrategy_new([Fields EXCEPT !.kind = "ThresholdConsensus",
                                     !.threshold = total_peers - max_evil(total_peers)],
                      max_evil(total_peers) + 1)

\* how many peers of the map hold the response r
count_of(responses, r) == Cardinality({p \in DOMAIN responses : responses[p] = r})

\* ThresholdConsensus::get_most_common_response: max_by_key over the values in
\* the order of their peers returns the last of the most frequent ones
get_most_common_response(responses) ==
    IF DOMAIN responses = {} THEN None
    ELSE LET best == {p \in DOMAIN responses :
                        \A q \in DOMAIN responses :
                            count_of(responses, responses[q]) <= count_of(responses, responses[p])}
             last_best == CHOOSE p \in best : \A q \in best : q <= p
         IN  Some(responses[last_best])

\* ThresholdConsensus::process as it would be if it asked for more than
\* threshold copies
ThresholdConsensus_process_more(s, peer, result) ==
    IF result.ok
    THEN IF peer \in s.retry THEN [s |-> s, out |-> Panicked]
         ELSE
            LET responses == map_insert(s.responses, peer, result.val)
                retry == s.retry \cup {peer}
                most_common_response == get_most_common_response(responses)
                s1 == [s EXCEPT !.responses = responses, !.retry = retry]
            IN  IF IsSome(most_common_response)
                   /\ count_of(responses, Unwrap(most_common_response)) > s.threshold
                THEN [s |-> s1, out |-> Success(Unwrap(most_common_response))]
                ELSE IF Cardinality(retry) = s.threshold
                THEN [s |-> [s1 EXCEPT !.retry = {}], out |-> Retry(retry)]
                ELSE [s |-> s1, out |-> Continue]
    ELSE ErrorStrategy_process(s, peer, result.err)

\* ThresholdConsensus::process as it would be if the Retry carried a copy of
\* the retry set and the strategy kept its own
ThresholdConsensus_process_keeps(s, peer, result) ==
    IF result.ok
    THEN IF peer \in s.retry THEN [s |-> s, out |-> Panicked]
         ELSE
            LET responses == map_insert(s.responses, peer, result.val)
                retry == s.retry \cup {peer}
                most_common_response == get_most_common_response(responses)
                s1 == [s EXCEPT !.responses = responses, !.retry = retry]
            IN  IF IsSome(most_common_response)
                   /\ count_of(responses, Unwrap(most_common_response)) >= s.threshold
                THEN [s |-> s1, out |-> Success(Unwrap(most_common_response))]
                ELSE IF Cardinality(retry) = s.threshold
                THEN [s |-> s1, out |-> Retry(retry)]
                ELSE [s |-> s1, out |-> Continue]
    ELSE ErrorStrategy_process(s, peer, result.err)

\* ThresholdConsensus::process
ThresholdConsensus_process(s, peer, result) ==
    IF result.ok
    THEN IF peer \in s.retry THEN [s |-> s, out |-> Panicked]
         ELSE
            LET responses == map_insert(s.responses, peer, result.val)
                retry == s.retry \cup {peer}
                most_common_response == get_most_common_response(responses)
                s1 == [s EXCEPT !.responses = responses, !.retry = retry]
            IN  IF IsSome(most_common_response)
                   /\ count_of(responses, Unwrap(most_common_response)) >= s.threshold
                THEN [s |-> s1, out |-> Success(Unwrap(most_common_response))]
                ELSE IF Cardinality(retry) = s.threshold
                THEN [s |-> [s1 EXCEPT !.retry = {}], out |-> Retry(retry)]
                ELSE [s |-> s1, out |-> Continue]
    ELSE ErrorStrategy_process(s, peer, result.err)
\* Vec::contains
contains(v, r) == \E i \in 1..Len(v) : v[i] = r

RECURSIVE union_extend(_, _)
\* the loop `for response in responses { if !union.contains { union.push } }`
union_extend(union, responses) ==
    IF responses = <<>> THEN union
    ELSE union_extend(IF contains(union, Head(responses)) THEN union
                      ELSE Append(union, Head(responses)),
                      Tail(responses))

\* UnionResponses::new
UnionResponses_new(total_peers) ==
    ErrorStrategy_new([Fields EXCEPT !.kind = "UnionResponses", !.responses = {},
                                     !.threshold = total_peers - max_evil(total_peers)],
                      max_evil(total_peers) + 1)

\* UnionResponses::process as it would be if the peers that errored counted
\* towards the threshold
UnionResponses_process_counts_errors(s, peer, result) ==
    IF result.ok
    THEN LET union == union_extend(s.union, result.val)
         IN  IF peer \in s.responses THEN [s |-> s, out |-> Panicked]
             ELSE
                LET responses == s.responses \cup {peer}
                IN  IF Cardinality(responses) + map_len(s.errors) = s.threshold
                    THEN [s |-> [s EXCEPT !.responses = responses, !.union = <<>>],
                          out |-> Success(union)]
                    ELSE [s |-> [s EXCEPT !.responses = responses, !.union = union],
                          out |-> Continue]
    ELSE ErrorStrategy_process(s, peer, result.err)

\* UnionResponses::process
UnionResponses_process(s, peer, result) ==
    IF result.ok
    THEN LET union == union_extend(s.union, result.val)
         IN  IF peer \in s.responses THEN [s |-> s, out |-> Panicked]
             ELSE
                LET responses == s.responses \cup {peer}
                IN  IF Cardinality(responses) = s.threshold
                    THEN [s |-> [s EXCEPT !.responses = responses, !.union = <<>>],
                          out |-> Success(union)]
                    ELSE [s |-> [s EXCEPT !.responses = responses, !.union = union],
                          out |-> Continue]
    ELSE ErrorStrategy_process(s, peer, result.err)

\* UnionResponsesSingle::new
UnionResponsesSingle_new(total_peers) ==
    ErrorStrategy_new([Fields EXCEPT !.kind = "UnionResponsesSingle", !.responses = {},
                                     !.threshold = total_peers - max_evil(total_peers)],
                      max_evil(total_peers) + 1)

\* UnionResponsesSingle::process as it would be if every response were pushed
UnionResponsesSingle_process_pushes(s, peer, result) ==
    IF result.ok
    THEN LET union == Append(s.union, result.val)
         IN  IF peer \in s.responses THEN [s |-> s, out |-> Panicked]
             ELSE
                LET responses == s.responses \cup {peer}
                IN  IF Cardinality(responses) = s.threshold
                    THEN [s |-> [s EXCEPT !.responses = responses, !.union = <<>>],
                          out |-> Success(union)]
                    ELSE [s |-> [s EXCEPT !.responses = responses, !.union = union],
                          out |-> Continue]
    ELSE ErrorStrategy_process(s, peer, result.err)

\* UnionResponsesSingle::process
UnionResponsesSingle_process(s, peer, result) ==
    IF result.ok
    THEN LET union == IF contains(s.union, result.val) THEN s.union
                      ELSE Append(s.union, result.val)
         IN  IF peer \in s.responses THEN [s |-> s, out |-> Panicked]
             ELSE
                LET responses == s.responses \cup {peer}
                IN  IF Cardinality(responses) = s.threshold
                    THEN [s |-> [s EXCEPT !.responses = responses, !.union = <<>>],
                          out |-> Success(union)]
                    ELSE [s |-> [s EXCEPT !.responses = responses, !.union = union],
                          out |-> Continue]
    ELSE ErrorStrategy_process(s, peer, result.err)

\* fedimint_core::time::now
now == clock

\* AllOrDeadline::new
AllOrDeadline_new(num_peers, deadline) ==
    [Fields EXCEPT !.kind = "AllOrDeadline", !.num_peers = num_peers,
                   !.deadline = deadline]

\* AllOrDeadline::process as it would be if the deadline had to be in the past
AllOrDeadline_process_strict(s, peer, result) ==
    IF result.ok
    THEN IF peer \in DOMAIN s.responses THEN [s |-> s, out |-> Panicked]
         ELSE
            LET responses == map_insert(s.responses, peer, result.val)
            IN  IF map_len(responses) = s.num_peers \/ s.deadline < now
                THEN [s |-> [s EXCEPT !.responses = <<>>], out |-> Success(responses)]
                ELSE [s |-> [s EXCEPT !.responses = responses], out |-> Continue]
    ELSE IF s.deadline < now
         THEN [s |-> [s EXCEPT !.responses = <<>>], out |-> Success(s.responses)]
         ELSE [s |-> s, out |-> Retry({peer})]

\* AllOrDeadline::process
AllOrDeadline_process(s, peer, result) ==
    IF result.ok
    THEN IF peer \in DOMAIN s.responses THEN [s |-> s, out |-> Panicked]
         ELSE
            LET responses == map_insert(s.responses, peer, result.val)
            IN  IF map_len(responses) = s.num_peers \/ s.deadline <= now
                THEN [s |-> [s EXCEPT !.responses = <<>>], out |-> Success(responses)]
                ELSE [s |-> [s EXCEPT !.responses = responses], out |-> Continue]
    ELSE IF s.deadline <= now
         THEN [s |-> [s EXCEPT !.responses = <<>>], out |-> Success(s.responses)]
         ELSE [s |-> s, out |-> Retry({peer})]

(***************************************************************************)
(* API version discovery.  The version types are fedimint_core::module's,  *)
(* from their contract and from the uses and the test of query.rs.         *)
(***************************************************************************)
\* ApiVersion { major, minor }
ApiVersion(major, minor) == [major |-> major, minor |-> minor]

\* CoreConsensusVersion::new, ModuleConsensusVersion::new
ConsensusVersion(major, minor) == [major |-> major, minor |-> minor]

\* MultiApiVersion::try_from_iter of versions given in the order of their
\* majors, at most one of a major
MultiApiVersion(api) == api

\* MultiApiVersion::get_by_major
get_by_major(api, major) ==
    IF \E i \in 1..Len(api) : api[i].major = major
    THEN Some(api[CHOOSE i \in 1..Len(api) : api[i].major = major])
    ELSE None

\* SupportedCoreApiVersions { core_consensus, api }
SupportedCoreApiVersions(core_consensus, api) ==
    [core_consensus |-> core_consensus, api |-> api]

\* SupportedCoreApiVersions::get_minor_api_version: the minor consensus
\* version does not matter, the major one must be the same
get_minor_api_version(supported, core_consensus, major) ==
    IF supported.core_consensus.major # core_consensus.major THEN None
    ELSE LET version == get_by_major(supported.api, major)
         IN  IF IsSome(version) THEN Some(Unwrap(version).minor) ELSE None

\* Iterator::min of a set of numbers that is not empty
min(S) == CHOOSE x \in S : \A y \in S : x <= y

\* the minors of the peers that support the major of client_api_version with
\* a minor at least its minor (filter_map, filter of both loops)
compatible_minors(client_versions, peer_versions, client_api_version) ==
    [p \in {q \in DOMAIN peer_versions :
                LET peer_minor ==
                        get_minor_api_version(peer_versions[q],
                                              client_versions.core_consensus,
                                              client_api_version.major)
                IN  IsSome(peer_minor) /\ client_api_version.minor <= Unwrap(peer_minor)}
        |-> Unwrap(get_minor_api_version(peer_versions[p],
                                         client_versions.core_consensus,
                                         client_api_version.major))]

RECURSIVE best_major_from_last(_, _, _, _, _)
\* the loop as it would be if a later major with as many peers replaced the best
best_major_from_last(client_versions, peer_versions, i, best_major, best_major_peer_num) ==
    IF i > Len(client_versions.api) THEN best_major
    ELSE LET client_api_version == client_versions.api[i]
             peers_compatible_num ==
                 map_len(compatible_minors(client_versions, peer_versions,
                                           client_api_version))
         IN  IF 0 < peers_compatible_num /\ best_major_peer_num <= peers_compatible_num
             THEN best_major_from_last(client_versions, peer_versions, i + 1,
                                       Some(client_api_version), peers_compatible_num)
             ELSE best_major_from_last(client_versions, peer_versions, i + 1,
                                       best_major, best_major_peer_num)

RECURSIVE best_major_from(_, _, _, _, _)
\* the loop `for client_api_version in &client_versions.api` from the i-th
best_major_from(client_versions, peer_versions, i, best_major, best_major_peer_num) ==
    IF i > Len(client_versions.api) THEN best_major
    ELSE LET client_api_version == client_versions.api[i]
             peers_compatible_num ==
                 map_len(compatible_minors(client_versions, peer_versions,
                                           client_api_version))
         IN  IF best_major_peer_num < peers_compatible_num
             THEN best_major_from(client_versions, peer_versions, i + 1,
                                  Some(client_api_version), peers_compatible_num)
             ELSE best_major_from(client_versions, peer_versions, i + 1,
                                  best_major, best_major_peer_num)

\* discover_common_core_api_version as it would be if the minor the client
\* asks for were returned
discover_common_core_api_version_client_minor(client_versions, peer_versions) ==
    best_major_from(client_versions, peer_versions, 1, None, 0)

\* discover_common_core_api_version as it would be if the minor were the
\* smallest of all peers that have the major
discover_common_core_api_version_any_minor(client_versions, peer_versions) ==
    LET best_major == best_major_from(client_versions, peer_versions, 1, None, 0)
    IN  IF ~IsSome(best_major) THEN None
        ELSE LET minors == compatible_minors(client_versions, peer_versions,
                                             ApiVersion(Unwrap(best_major).major, 0))
             IN  Some(ApiVersion(Unwrap(best_major).major,
                                 min({minors[p] : p \in DOMAIN minors})))

\* discover_common_core_api_version
discover_common_core_api_version(client_versions, peer_versions) ==
    LET best_major == best_major_from(client_versions, peer_versions, 1, None, 0)
    IN  IF ~IsSome(best_major) THEN None
        ELSE LET minors == compatible_minors(client_versions, peer_versions,
                                             Unwrap(best_major))
             IN  Some(ApiVersion(Unwrap(best_major).major,
                                 min({minors[p] : p \in DOMAIN minors})))

\* SupportedModuleApiVersions { core_consensus, module_consensus, api }
SupportedModuleApiVersions(core_consensus, module_consensus, api) ==
    [core_consensus |-> core_consensus, module_consensus |-> module_consensus,
     api |-> api]

\* SupportedModuleApiVersions::get_minor_api_version: the major versions of
\* the core and of the module consensus must be the same
get_minor_module_api_version(supported, core_consensus, module_consensus, major) ==
    IF supported.core_consensus.major # core_consensus.major THEN None
    ELSE IF supported.module_consensus.major # module_consensus.major THEN None
    ELSE LET version == get_by_major(supported.api, major)
         IN  IF IsSome(version) THEN Some(Unwrap(version).minor) ELSE None

\* the minors of the peers that support the major of client_api_version of
\* the module with a minor at least its minor
compatible_module_minors(client_versions, peer_versions, client_api_version) ==
    [p \in {q \in DOMAIN peer_versions :
                LET peer_minor ==
                        get_minor_module_api_version(peer_versions[q],
                                                     client_versions.core_consensus,
                                                     client_versions.module_consensus,
                                                     client_api_version.major)
                IN  IsSome(peer_minor) /\ client_api_version.minor <= Unwrap(peer_minor)}
        |-> Unwrap(get_minor_module_api_version(peer_versions[p],
                                                client_versions.core_consensus,
                                                client_versions.module_consensus,
                                                client_api_version.major))]

RECURSIVE best_module_major_from(_, _, _, _, _)
\* the loop of discover_common_module_api_version from the i-th version
best_module_major_from(client_versions, peer_versions, i, best_major, best_major_peer_num) ==
    IF i > Len(client_versions.api) THEN best_major
    ELSE LET client_api_version == client_versions.api[i]
             peers_compatible_num ==
                 map_len(compatible_module_minors(client_versions, peer_versions,
                                                  client_api_version))
         IN  IF best_major_peer_num < peers_compatible_num
             THEN best_module_major_from(client_versions, peer_versions, i + 1,
                                         Some(client_api_version), peers_compatible_num)
             ELSE best_module_major_from(client_versions, peer_versions, i + 1,
                                         best_major, best_major_peer_num)

\* discover_common_module_api_version
discover_common_module_api_version(client_versions, peer_versions) ==
    LET best_major == best_module_major_from(client_versions, peer_versions, 1, None, 0)
    IN  IF ~IsSome(best_major) THEN None
        ELSE LET minors == compatible_module_minors(client_versions, peer_versions,
                                                    Unwrap(best_major))
             IN  Some(ApiVersion(Unwrap(best_major).major,
                                 min({minors[p] : p \in DOMAIN minors})))

\* SupportedApiVersionsSummary { core, modules }
SupportedApiVersionsSummary(core, modules) == [core |-> core, modules |-> modules]

\* the versions the peers report of the module instance, of the peers that
\* have it (the inner filter_map of discover_common_api_versions_set)
module_versions_of(peer_versions, module_instance_id) ==
    [p \in {q \in DOMAIN peer_versions :
                module_instance_id \in DOMAIN peer_versions[q].modules}
        |-> peer_versions[p].modules[module_instance_id]]

\* discover_common_api_versions_set as it would be if a module instance
\* without a common version were an error
discover_common_api_versions_set_strict(client_versions, peer_versions) ==
    LET core == discover_common_core_api_version(
                    client_versions.core,
                    [p \in DOMAIN peer_versions |-> peer_versions[p].core])
        module(id) == discover_common_module_api_version(
                          client_versions.modules[id],
                          module_versions_of(peer_versions, id))
    IN  IF ~IsSome(core) THEN Err("Could not find a common core API version")
        ELSE IF \E id \in DOMAIN client_versions.modules : ~IsSome(module(id))
        THEN Err("Could not find a common module API version")
        ELSE Ok([core |-> Unwrap(core),
                 modules |-> [id \in DOMAIN client_versions.modules
                                |-> Unwrap(module(id))]])

\* discover_common_api_versions_set
discover_common_api_versions_set(client_versions, peer_versions) ==
    LET core == discover_common_core_api_version(
                    client_versions.core,
                    [p \in DOMAIN peer_versions |-> peer_versions[p].core])
        module(id) == discover_common_module_api_version(
                          client_versions.modules[id],
                          module_versions_of(peer_versions, id))
    IN  IF ~IsSome(core) THEN Err("Could not find a common core API version")
        ELSE Ok([core |-> Unwrap(core),
                 modules |-> [id \in {i \in DOMAIN client_versions.modules :
                                            IsSome(module(i))}
                                |-> Unwrap(module(id))]])

\* DiscoverApiVersionSet::new
DiscoverApiVersionSet_new(num_peers, deadline, client_versions) ==
    [kind |-> "DiscoverApiVersionSet",
     inner |-> AllOrDeadline_new(num_peers, deadline),
     client_versions |-> client_versions]

\* DiscoverApiVersionSet::process as it would be if the Failure listed the
\* peers whose versions were collected
DiscoverApiVersionSet_process_blames(s, peer, result) ==
    LET r == AllOrDeadline_process(s.inner, peer, result)
    IN  IF r.out.tag = "Success"
        THEN LET o == discover_common_api_versions_set(s.client_versions, r.out.val)
             IN  [s |-> [s EXCEPT !.inner = r.s],
                  out |-> IF o.ok THEN Success(o.val)
                          ELSE Failure(Some(o.err),
                                       [p \in DOMAIN r.out.val |-> InvalidResponse(o.err)])]
        ELSE [s |-> [s EXCEPT !.inner = r.s], out |-> r.out]

\* DiscoverApiVersionSet::process
DiscoverApiVersionSet_process(s, peer, result) ==
    LET r == AllOrDeadline_process(s.inner, peer, result)
    IN  IF r.out.tag = "Success"
        THEN LET o == discover_common_api_versions_set(s.client_versions, r.out.val)
             IN  [s |-> [s EXCEPT !.inner = r.s],
                  out |-> IF o.ok THEN Success(o.val) ELSE Failure(Some(o.err), <<>>)]
        ELSE [s |-> [s EXCEPT !.inner = r.s], out |-> r.out]

\* the module API versions of an instance with one version (1, minor)
ModuleVersions(minor) ==
    SupportedModuleApiVersions(ConsensusVersion(0, 0), ConsensusVersion(0, 0),
                               MultiApiVersion(<<ApiVersion(1, minor)>>))

\* the summary of the client: two core majors, module instances 0 and 1
ClientSummary ==
    SupportedApiVersionsSummary(
        SupportedCoreApiVersions(ConsensusVersion(0, 0),
                                 MultiApiVersion(<<ApiVersion(2, 3), ApiVersion(3, 1)>>)),
        [id \in {0, 1} |-> ModuleVersions(1)])

\* the summaries a peer may report: one with a core version too old for the
\* client, one with a version of module instance 0 too old for it; no peer
\* has module instance 1
PeerSummaries ==
    {SupportedApiVersionsSummary(
         SupportedCoreApiVersions(ConsensusVersion(0, 0),
                                  MultiApiVersion(<<ApiVersion(2, 2)>>)),
         [id \in {0} |-> ModuleVersions(1)]),
     SupportedApiVersionsSummary(
         SupportedCoreApiVersions(ConsensusVersion(0, 0),
                                  MultiApiVersion(<<ApiVersion(3, 1)>>)),
         [id \in {0} |-> ModuleVersions(0)])}

SummaryResults == {Ok(v) : v \in PeerSummaries} \cup {Err("Transport")}

\* the versions of the core API a client is built with: try_from_iter keeps
\* them in the order of their majors
ClientCoreVersions ==
    {SupportedCoreApiVersions(ConsensusVersion(0, 0), MultiApiVersion(api)) :
        api \in {<<ApiVersion(2, 3), ApiVersion(3, 1)>>, <<ApiVersion(2, 3)>>,
                 <<ApiVersion(3, 2)>>}}

\* the versions of the core API a peer may report
PeerCoreVersions ==
    {SupportedCoreApiVersions(ConsensusVersion(0, 0), MultiApiVersion(api)) :
        api \in {<<ApiVersion(2, 2)>>, <<ApiVersion(2, 1)>>, <<ApiVersion(3, 1)>>,
                 <<ApiVersion(2, 3), ApiVersion(3, 2)>>, <<ApiVersion(2, 4)>>}}
    \cup {SupportedCoreApiVersions(ConsensusVersion(0, 1),
                                   MultiApiVersion(<<ApiVersion(2, 3)>>)),
          SupportedCoreApiVersions(ConsensusVersion(1, 0),
                                   MultiApiVersion(<<ApiVersion(2, 4), ApiVersion(3, 1)>>))}

\* BTreeMap<PeerId, V>: the maps from some of the peers to values of V
PeerMaps(peers, V) == UNION {[ps -> V] : ps \in SUBSET peers}

(***************************************************************************)
(* The driver of a request, from its contract: it sends one request to     *)
(* every peer, feeds each answer to the strategy, sends again to the peers *)
(* of a Retry, and cancels what is outstanding on Success or Failure.      *)
(***************************************************************************)
\* the strategies that count the errors of peers with an ErrorStrategy
ErrorStrategyKinds ==
    {"FilterMap", "FilterMapThreshold", "ThresholdConsensus", "UnionResponses",
     "UnionResponsesSingle"}
\* the strategies a request of n peers is made with
StrategiesOf(n) ==
    {FilterMap_new(n), FilterMapThreshold_new(n), ThresholdConsensus_new(n),
     UnionResponses_new(n), UnionResponsesSingle_new(n)}
    \cup {AllOrDeadline_new(n, d) : d \in 1..MaxClock}

\* the mint of the client's federation is not part of a request
MintIdle ==
    /\ db = [k \in Keys |-> None]
    /\ tx = [t \in Txs |-> IdleTx]
    /\ last = [op |-> "none"]
    /\ metrics = [m \in Metrics |-> [count |-> 0, sum |-> 0]]
    /\ ledger = [redeemed |-> [n \in Nonces |-> 0], issued |-> [op \in OutPoints |-> 0],
                 redeemed_msat |-> 0, issued_msat |-> 0, rolled |-> None]

\* a request to n peers begins with strategy s
Dispatch(n, s) ==
    /\ federation = PeersOf(n)
    /\ strategy = s
    /\ pending = PeersOf(n)
    /\ step = [out |-> [tag |-> "none"]]
    /\ clock = 0
    /\ errored = <<>>
    /\ round = {}
    /\ discovery = [op |-> "none"]
    /\ NoCalls

\* a request begins with a strategy of one of the kinds
InitKinds(kinds) ==
    /\ MintIdle
    /\ \E n \in 1..MaxPeers : \E s \in StrategiesOf(n) : s.kind \in kinds /\ Dispatch(n, s)

InitQuery ==
    /\ InitKinds(ErrorStrategyKinds \cup {"AllOrDeadline"})
    /\ honest = {}

\* the request is over: the strategy returned Success or Failure, or panicked
Done == step.out.tag \in {"Success", "Failure", "Panic"}

\* the error the strategy takes the result of the peer for, if any
PeerErrorOf(s, peer, result) ==
    IF ~result.ok THEN Some(result.err)
    ELSE IF s.kind = "FilterMap" /\ ~filter_map(result.val).ok
    THEN Some(InvalidResponse(filter_map(result.val).err))
    ELSE IF s.kind = "FilterMapThreshold" /\ ~verifier(peer, result.val).ok
    THEN Some(InvalidResponse(verifier(peer, result.val).err))
    ELSE None

\* the answer of a peer arrives and is fed to the strategy, which leaves r
Deliver(peer, result, r) ==
    /\ ~Done
    /\ peer \in pending
    /\ peer \in honest => result = Ok("V")
    /\ strategy' = r.s
    /\ step' = [peer |-> peer, result |-> result, out |-> r.out]
    /\ pending' = IF r.out.tag = "Retry" THEN (pending \ {peer}) \cup r.out.peers
                  ELSE IF r.out.tag \in {"Success", "Failure", "Panic"} THEN {}
                  ELSE pending \ {peer}
    /\ errored' = IF IsSome(PeerErrorOf(strategy, peer, result))
                  THEN map_insert(errored, peer, Unwrap(PeerErrorOf(strategy, peer, result)))
                  ELSE errored
    /\ round' = IF strategy.kind # "ThresholdConsensus" \/ r.out.tag = "Retry" THEN {}
                ELSE IF result.ok THEN round \cup {peer}
                ELSE round
    /\ UNCHANGED <<federation, clock, honest, discovery, db, tx, last, metrics, ledger, kvars>>

FilterMapStep(peer, result) ==
    /\ strategy.kind = "FilterMap"
    /\ Deliver(peer, result, FilterMap_process(strategy, peer, result))

FilterMapThresholdStep(peer, result) ==
    /\ strategy.kind = "FilterMapThreshold"
    /\ Deliver(peer, result, FilterMapThreshold_process(strategy, peer, result))

ThresholdConsensusStep(peer, result) ==
    /\ strategy.kind = "ThresholdConsensus"
    /\ Deliver(peer, result, ThresholdConsensus_process(strategy, peer, result))

UnionResponsesStep(peer, result) ==
    /\ strategy.kind = "UnionResponses"
    /\ Deliver(peer, result, UnionResponses_process(strategy, peer, result))

UnionResponsesSingleStep(peer, result) ==
    /\ strategy.kind = "UnionResponsesSingle"
    /\ Deliver(peer, result, UnionResponsesSingle_process(strategy, peer, result))

AllOrDeadlineStep(peer, result) ==
    /\ strategy.kind = "AllOrDeadline"
    /\ Deliver(peer, result, AllOrDeadline_process(strategy, peer, result))

\* time passes; only AllOrDeadline reads the clock
Tick ==
    /\ strategy.kind = "AllOrDeadline"
    /\ ~Done
    /\ clock < MaxClock
    /\ clock' = clock + 1
    /\ UNCHANGED <<federation, strategy, pending, step, errored, honest, round, discovery,
                   db, tx, last, metrics, ledger, kvars>>

\* requests with every strategy; the strategies that only compare or store
\* what a peer answers are fed fewer different answers
NextQuery ==
    \/ \E peer \in PeersOf(MaxPeers), result \in PeerResults : FilterMapStep(peer, result)
    \/ \E peer \in PeersOf(MaxPeers), result \in PeerResults :
            FilterMapThresholdStep(peer, result)
    \/ \E peer \in PeersOf(MaxPeers), result \in DeadlineResults :
            ThresholdConsensusStep(peer, result)
    \/ \E peer \in PeersOf(MaxPeers), result \in VecResults : UnionResponsesStep(peer, result)
    \/ \E peer \in PeersOf(MaxPeers), result \in PeerResults :
            UnionResponsesSingleStep(peer, result)
    \/ \E peer \in PeersOf(MaxPeers), result \in {Ok("V"), Err("Transport")} :
            AllOrDeadlineStep(peer, result)
    \/ Tick

SpecQuery == InitQuery /\ [][NextQuery]_vars

\* requests with the filtering strategies
InitFilter == InitKinds({"FilterMap", "FilterMapThreshold"}) /\ honest = {}
NextFilter ==
    \/ \E peer \in PeersOf(MaxPeers), result \in PeerResults : FilterMapStep(peer, result)
    \/ \E peer \in PeersOf(MaxPeers), result \in PeerResults :
            FilterMapThresholdStep(peer, result)
SpecFilter == InitFilter /\ [][NextFilter]_vars

\* requests with ThresholdConsensus
InitThreshold == InitKinds({"ThresholdConsensus"}) /\ honest = {}
NextThreshold ==
    \E peer \in PeersOf(MaxPeers), result \in PeerResults : ThresholdConsensusStep(peer, result)
SpecThreshold == InitThreshold /\ [][NextThreshold]_vars

\* requests with the union strategies
InitUnion == InitKinds({"UnionResponses", "UnionResponsesSingle"}) /\ honest = {}
NextUnion ==
    \/ \E peer \in PeersOf(MaxPeers), result \in VecResults : UnionResponsesStep(peer, result)
    \/ \E peer \in PeersOf(MaxPeers), result \in PeerResults :
            UnionResponsesSingleStep(peer, result)
SpecUnion == InitUnion /\ [][NextUnion]_vars

\* requests with AllOrDeadline
InitDeadline == InitKinds({"AllOrDeadline"}) /\ honest = {}
NextDeadline ==
    \/ \E peer \in PeersOf(MaxPeers), result \in DeadlineResults :
            AllOrDeadlineStep(peer, result)
    \/ Tick
SpecDeadline == InitDeadline /\ [][NextDeadline]_vars
DiscoverApiVersionSetStep(peer, result) ==
    /\ strategy.kind = "DiscoverApiVersionSet"
    /\ Deliver(peer, result, DiscoverApiVersionSet_process(strategy, peer, result))

\* time passes during a discovery; the clock is only compared with the
\* deadline, and readings past it are not told apart
DiscoverTick ==
    /\ strategy.kind = "DiscoverApiVersionSet"
    /\ ~Done
    /\ clock < strategy.inner.deadline
    /\ clock' = clock + 1
    /\ UNCHANGED <<federation, strategy, pending, step, errored, honest, round, discovery,
                   db, tx, last, metrics, ledger, kvars>>

\* requests with DiscoverApiVersionSet, the deadline one tick away
InitDiscover ==
    /\ MintIdle
    /\ \E n \in 1..MaxPeers : Dispatch(n, DiscoverApiVersionSet_new(n, 1, ClientSummary))
    /\ honest = {}
NextDiscover ==
    \/ \E peer \in PeersOf(MaxPeers), result \in SummaryResults :
            DiscoverApiVersionSetStep(peer, result)
    \/ DiscoverTick
SpecDiscover == InitDiscover /\ [][NextDiscover]_vars

\* a call of discover_common_core_api_version is about to be made
InitVersions ==
    /\ MintIdle
    /\ federation = PeersOf(MaxPeers)
    /\ strategy = [kind |-> "none"]
    /\ pending = {}
    /\ step = [out |-> [tag |-> "none"]]
    /\ clock = 0
    /\ errored = <<>>
    /\ honest = {}
    /\ round = {}
    /\ NoCalls
    /\ \E client_versions \in ClientCoreVersions :
       \E peer_versions \in PeerMaps(federation, PeerCoreVersions) :
            discovery = [op |-> "call", client_versions |-> client_versions,
                         peer_versions |-> peer_versions]

\* the call returns
DiscoverCore ==
    /\ discovery.op = "call"
    /\ discovery' = [op |-> "returned",
                     client_versions |-> discovery.client_versions,
                     peer_versions |-> discovery.peer_versions,
                     result |-> discover_common_core_api_version(
                                    discovery.client_versions, discovery.peer_versions)]
    /\ UNCHANGED <<db, tx, last, metrics, ledger, federation, strategy, pending, step,
                   clock, errored, honest, round, kvars>>

SpecVersions == InitVersions /\ [][DiscoverCore]_vars

\* requests with the strategies that return Retry
InitRetry ==
    /\ MintIdle
    /\ \E n \in 1..MaxPeers :
       \E s \in {ThresholdConsensus_new(n), AllOrDeadline_new(n, 1),
                 DiscoverApiVersionSet_new(n, 1, ClientSummary)} : Dispatch(n, s)
    /\ honest = {}

\* an answer arrives
Answer ==
    \/ \E peer \in PeersOf(MaxPeers), result \in DeadlineResults :
            ThresholdConsensusStep(peer, result)
    \/ \E peer \in PeersOf(MaxPeers), result \in {Ok("V"), Err("Transport")} :
            AllOrDeadlineStep(peer, result)
    \/ \E peer \in PeersOf(MaxPeers), result \in SummaryResults :
            DiscoverApiVersionSetStep(peer, result)

\* time passes
Elapse == Tick \/ DiscoverTick

NextRetry == Answer \/ Elapse

\* a request is outstanding: Answer is enabled exactly then
Awaiting == ~Done /\ pending # {}

\* weak fairness of Answer, WF_vars(Answer), with the enabling condition of
\* the action written out as Awaiting
AnswersKeepArriving ==
    \/ []<>(~Awaiting)
    \/ []<><<Answer>>_vars

\* the driver keeps feeding the answers that arrive, and time passes
SpecRetry ==
    /\ InitRetry
    /\ [][NextRetry]_vars
    /\ AnswersKeepArriving
    /\ WF_vars(Elapse)

(***************************************************************************)
(* Properties of the error budget of the strategies (SpecQuery).           *)
(***************************************************************************)
\* f, the number of peers of the federation that may be evil
MaxEvil == (Cardinality(federation) - 1) \div 3

\* C11, as stated: with every strategy, AllOrDeadline included, once errors
\* of f+1 distinct peers have been processed the request has ended in a
\* Failure, and no step is a Failure while fewer than f+1 peers have errored.
BFTBoundOfEveryStrategy ==
    strategy.kind # "none" =>
        /\ map_len(errored) >= MaxEvil + 1 => step.out.tag = "Failure"
        /\ map_len(errored) < MaxEvil + 1 => step.out.tag # "Failure"

\* C11, amended: with the strategies that count errors with an ErrorStrategy
\* (a response the filter refuses is an error of its peer), the step that
\* processes the error of the (f+1)-th distinct peer is a Failure, which ends
\* the request, and while fewer than f+1 peers have errored every step is
\* Continue, Retry or Success; AllOrDeadline never returns a Failure.
BFTBound ==
    /\ strategy.kind \in ErrorStrategyKinds =>
          /\ map_len(errored) <= MaxEvil + 1
          /\ map_len(errored) = MaxEvil + 1 => step.out.tag = "Failure"
          /\ map_len(errored) < MaxEvil + 1 =>
                step.out.tag \in {"none", "Continue", "Retry", "Success"}
    /\ strategy.kind = "AllOrDeadline" =>
          step.out.tag \in {"none", "Continue", "Retry", "Success"}

\* C11 witness: a request to four or more peers has ended in a Failure at the
\* error of the second peer, after an answer that was no error.
FailedAtBudget ==
    /\ strategy.kind \in ErrorStrategyKinds
    /\ step.out.tag = "Failure"
    /\ map_len(errored) = 2
    /\ MaxEvil = 1

\* C20: when an ErrorStrategy has processed an error, the step is a Failure
\* if the errors recorded since the start number f+1 and Continue if not;
\* the Failure carries a message and the map of exactly the f+1 peers that
\* errored with their errors, and the strategy's own map is empty after it.
ErrorStrategyDrains ==
    strategy.kind \in ErrorStrategyKinds /\ step.out.tag # "none"
    /\ IsSome(PeerErrorOf(strategy, step.peer, step.result)) =>
        /\ strategy.error_threshold = MaxEvil + 1
        /\ IF map_len(errored) = MaxEvil + 1
           THEN /\ step.out.tag = "Failure"
                /\ step.out.peers = errored
                /\ IsSome(step.out.general)
                /\ strategy.errors = <<>>
           ELSE /\ step.out = Continue
                /\ strategy.errors = errored

\* C20 witness: a Failure carries the transport error of one peer and the
\* refused response of another.
FailureCarriesBoth ==
    /\ step.out.tag = "Failure"
    /\ \E p, q \in DOMAIN step.out.peers :
          /\ step.out.peers[p] = "Transport"
          /\ step.out.peers[q] = InvalidResponse("refused")
(***************************************************************************)
(* Properties of ThresholdConsensus (SpecThreshold).                       *)
(***************************************************************************)
\* threshold = N - f
Threshold == Cardinality(federation) - MaxEvil
\* the number of peers whose last Ok response, as recorded, is v
Copies(v) == Cardinality({p \in DOMAIN strategy.responses : strategy.responses[p] = v})

\* C12: the request has ended in Success exactly if some value is the
\* recorded response of at least threshold peers, and the Success returns
\* that value; Success ends the request, so it is returned at the first
\* response after which a value has threshold copies.
SuccessAtThreshold ==
    strategy.kind = "ThresholdConsensus" =>
        /\ step.out.tag = "Success" <=> \E v \in Values : Copies(v) >= Threshold
        /\ step.out.tag = "Success" => Copies(step.out.val) >= Threshold

\* C12 witness: of four peers 0, 1 and 2 answered V, and the answer of peer 2
\* returned Success(V) while peer 3 has not answered.
SuccessOnThird ==
    /\ strategy.kind = "ThresholdConsensus"
    /\ federation = PeersOf(4)
    /\ step.out = Success("V")
    /\ step.peer = 2
    /\ DOMAIN strategy.responses = {0, 1, 2}
    /\ errored = <<>>

\* C13: a step that processes an Ok response is a Retry exactly if, with
\* this response, threshold peers have answered Ok since the last Retry (or
\* since the start) and no value has threshold copies; the Retry names
\* exactly those peers and the retry set is empty after it; a step that
\* processes an error is no Retry.
RetryAtThreshold ==
    [][strategy.kind = "ThresholdConsensus" =>
        IF step'.result.ok
        THEN LET answered == round \cup {step'.peer}
             IN  /\ step'.out.tag = "Retry" <=>
                        /\ Cardinality(answered) = Threshold
                        /\ \A v \in Values : Copies(v)' < Threshold
                 /\ step'.out.tag = "Retry" =>
                        /\ step'.out.peers = answered
                        /\ strategy'.retry = {}
        ELSE step'.out.tag # "Retry"]_vars

\* C13 witness: of four peers 0, 1 and 2 answered three different values and
\* the third answer returned Retry({0, 1, 2}).
RetryOfThree ==
    /\ strategy.kind = "ThresholdConsensus"
    /\ federation = PeersOf(4)
    /\ step.out = Retry({0, 1, 2})
    /\ \A p, q \in {0, 1, 2} : p # q => strategy.responses[p] # strategy.responses[q]
(***************************************************************************)
(* ThresholdConsensus with N - f or more honest peers (SpecHonest): an     *)
(* honest peer answers every request with V, and every request to an       *)
(* honest peer is answered; the other peers answer what they like, or not. *)
(***************************************************************************)
InitHonest ==
    /\ InitKinds({"ThresholdConsensus"})
    /\ honest \in {h \in SUBSET federation :
                        Cardinality(h) >= Cardinality(federation) - MaxEvil}

\* the answer of the honest peer arrives
HonestAnswer(peer) ==
    /\ peer \in honest
    /\ ThresholdConsensusStep(peer, Ok("V"))

\* a request to the honest peer is outstanding: HonestAnswer(peer) is enabled
\* exactly then
Awaited(peer) ==
    /\ strategy.kind = "ThresholdConsensus"
    /\ ~Done
    /\ peer \in pending
    /\ peer \in honest

\* weak fairness of HonestAnswer(peer), WF_vars(HonestAnswer(peer)), with the
\* enabling condition of the action written out as Awaited(peer)
AnswersEventually(peer) ==
    \/ []<>(~Awaited(peer))
    \/ []<><<HonestAnswer(peer)>>_vars

SpecHonest ==
    /\ InitHonest
    /\ [][NextThreshold]_vars
    /\ \A peer \in PeersOf(MaxPeers) : AnswersEventually(peer)

\* C14: when N - f or more peers answer V, whatever the others answer, in
\* whatever order, and however often Retry is issued and applied, no step is
\* a Failure and a step is eventually a Success.
SuccessBeforeFailure ==
    /\ [](step.out.tag # "Failure")
    /\ <>(step.out.tag = "Success")

\* C14 witness: Success(V) was returned although a peer that is not honest
\* has errored and another one's recorded answer is not V.
SuccessDespiteEvil ==
    /\ step.out = Success("V")
    /\ honest # federation
    /\ errored # <<>>
    /\ \E p \in DOMAIN strategy.responses : strategy.responses[p] # "V"
(***************************************************************************)
(* Properties of the filtering strategies (SpecFilter).                    *)
(***************************************************************************)
\* C15: every step of FilterMap: a response for which the filter yields a
\* value returns Success with that value; any other answer, an error of the
\* peer or a response the filter refuses (recorded as InvalidResponse), counts
\* as an error of the peer: the step is Failure exactly when f + 1 peers have
\* errored, and the Failure lists them with their errors, else it is Continue
\* with all errors so far held by the strategy; no step is a Retry.
FilterMapFirstValid ==
    [][strategy.kind = "FilterMap" =>
        LET peer == step'.peer
            result == step'.result
            accepted == result.ok /\ result.val # "X"
        IN  /\ step'.out.tag # "Retry"
            /\ accepted => step'.out = Success(<<"checked", result.val>>)
            /\ ~accepted =>
                /\ peer \in DOMAIN errored' /\ peer \notin DOMAIN errored
                /\ errored'[peer] = IF result.ok THEN "InvalidResponse: refused"
                                                ELSE result.err
                /\ IF map_len(errored') = MaxEvil + 1
                   THEN step'.out.tag = "Failure" /\ step'.out.peers = errored'
                   ELSE step'.out = Continue /\ strategy'.errors = errored']_vars

\* C15 witness: of four peers 0 and 1 returned transport errors and FilterMap
\* returned Failure listing both.
FilterMapFailsAtTwo ==
    /\ strategy.kind = "FilterMap"
    /\ federation = PeersOf(4)
    /\ step.out.tag = "Failure"
    /\ step.out.peers = [p \in {0, 1} |-> "Transport"]

\* the peers whose response the strategy took so far: the peers that
\* answered and did not error (a strategy without Retry asks no peer twice)
Accepted == (federation \ pending) \ DOMAIN errored

\* C16: every step of FilterMapThreshold: the step is a Success exactly when
\* it is the answer that brings the number of peers whose response passed the
\* filter to N - f; the map of the Success then has exactly N - f entries,
\* one for each of those peers, holding the filtered value of the peer's
\* response; an accepted response before that gives Continue.
FilterMapThresholdCollects ==
    [][strategy.kind = "FilterMapThreshold" =>
        LET peer == step'.peer
            result == step'.result
            passed == result.ok /\ result.val # "X"
            accepted == Accepted \cup {peer}
        IN  /\ step'.out.tag = "Success" <=>
                    passed /\ Cardinality(accepted) = Threshold
            /\ step'.out.tag = "Success" =>
                    /\ DOMAIN step'.out.val = accepted
                    /\ map_len(step'.out.val) = Threshold
                    /\ step'.out.val[peer] = <<"checked", peer, result.val>>
                    /\ \A p \in Accepted :
                            /\ step'.out.val[p] = strategy.filtered_responses[p]
                            /\ step'.out.val[p][2] = p
            /\ passed /\ Cardinality(accepted) # Threshold =>
                    /\ step'.out = Continue
                    /\ DOMAIN strategy'.filtered_responses = accepted
                    /\ strategy'.filtered_responses[peer] = <<"checked", peer, result.val>>]_vars

\* C16 witness: of four peers one errored and the other three were accepted
\* with different responses; the third accepted response returned the map.
ThreeAccepted ==
    /\ strategy.kind = "FilterMapThreshold"
    /\ federation = PeersOf(4)
    /\ step.out.tag = "Success"
    /\ map_len(step.out.val) = 3
    /\ map_len(errored) = 1
    /\ \E p, q \in DOMAIN step.out.val : step.out.val[p][3] # step.out.val[q][3]
(***************************************************************************)
(* Properties of the union strategies (SpecUnion).                         *)
(***************************************************************************)
UnionKinds == {"UnionResponses", "UnionResponsesSingle"}

\* the elements a response contributes, in their order
Contribution(result) ==
    IF strategy.kind = "UnionResponses" THEN result.val ELSE <<result.val>>

Elements(v) == {v[i] : i \in 1..Len(v)}

\* the place of the first occurrence of e in v
FirstAt(v, e) == CHOOSE i \in 1..Len(v) : v[i] = e /\ \A j \in 1..(i - 1) : v[j] # e

\* the union after the step: the one returned, or the one the strategy holds
UnionAfter == IF step'.out.tag = "Success" THEN step'.out.val ELSE strategy'.union

\* C17: every step of UnionResponses and UnionResponsesSingle: the step is a
\* Success exactly when it is the Ok response that brings the number of peers
\* that contributed an Ok response to N - f, errors not counted; with every
\* Ok response the union keeps what it had, in place, and gains behind it each
\* element of the response it did not have, once, in the order of the
\* response; it has no element twice.  So the vector of the Success has every
\* element contributed, once, in order of first arrival.
UnionOfThreshold ==
    [][strategy.kind \in UnionKinds =>
        LET peer == step'.peer
            result == step'.result
            u == UnionAfter
            c == Contribution(result)
            old == Len(strategy.union)
        IN  /\ step'.out.tag = "Success" <=>
                    result.ok /\ Cardinality(Accepted \cup {peer}) = Threshold
            /\ result.ok =>
                    /\ SubSeq(u, 1, old) = strategy.union
                    /\ Elements(u) = Elements(strategy.union) \cup Elements(c)
                    /\ \A i, j \in 1..Len(u) : i # j => u[i] # u[j]
                    /\ \A i, j \in (old + 1)..Len(u) :
                            i < j => FirstAt(c, u[i]) < FirstAt(c, u[j])
            /\ ~result.ok /\ step'.out.tag = "Continue" =>
                    strategy'.union = strategy.union]_vars

\* C17 witness: of four peers one errored; the third Ok response, <<a, a>>,
\* completed the union <<b, a>>, which UnionResponses returned.
UnionOfThree ==
    /\ strategy.kind = "UnionResponses"
    /\ federation = PeersOf(4)
    /\ map_len(errored) = 1
    /\ step.result = Ok(<<"a", "a">>)
    /\ step.out = Success(<<"b", "a">>)

\* C18: a response to UnionResponses or UnionResponsesSingle whose elements
\* are all in the union already, as is the response another peer gave before,
\* leaves the union as it was: the same elements in the same places, in the
\* vector the strategy keeps or in the one it returns with that step.
UnionIdempotent ==
    [][/\ strategy.kind \in UnionKinds
       /\ step'.result.ok
       /\ Elements(Contribution(step'.result)) \subseteq Elements(strategy.union)
       => UnionAfter = strategy.union]_vars

\* C18 witness: two peers gave UnionResponsesSingle the response V one after
\* the other, and the union holds V once.
SameResponseTwice ==
    /\ strategy.kind = "UnionResponsesSingle"
    /\ federation = PeersOf(4)
    /\ Cardinality(strategy.responses) = 2
    /\ step.result = Ok("V")
    /\ step.out = Continue
    /\ strategy.union = <<"V">>
(***************************************************************************)
(* Properties of AllOrDeadline (SpecDeadline).                             *)
(***************************************************************************)
\* C19: every answer AllOrDeadline processes: the step is a Success exactly
\* when the time is at or after the deadline or the Ok response is the N-th
\* of the map, and the Success carries the map of the Ok responses collected,
\* this one included; an error before the deadline gives Retry of that peer
\* alone and leaves the map as it was; an Ok response before the deadline
\* that is not the N-th gives Continue and is kept in the map.
AllOrDeadlineSteps ==
    [][strategy.kind = "AllOrDeadline" /\ clock' = clock =>
        LET peer == step'.peer
            result == step'.result
            late == strategy.deadline <= clock
            collected == IF result.ok
                         THEN map_insert(strategy.responses, peer, result.val)
                         ELSE strategy.responses
            all == result.ok /\ map_len(collected) = Cardinality(federation)
        IN  /\ step'.out.tag = "Success" <=> late \/ all
            /\ step'.out.tag = "Success" => step'.out.val = collected
            /\ ~result.ok /\ ~late =>
                    /\ step'.out = Retry({peer})
                    /\ strategy'.responses = strategy.responses
            /\ result.ok /\ ~late /\ ~all =>
                    /\ step'.out = Continue
                    /\ strategy'.responses = collected
                    /\ map_len(collected) < Cardinality(federation)]_vars

\* C19 witness: of four peers two answered; then, the deadline reached, the
\* error of a third returned Success with the two responses.
SuccessAtDeadline ==
    /\ strategy.kind = "AllOrDeadline"
    /\ federation = PeersOf(4)
    /\ strategy.deadline <= clock
    /\ step.out.tag = "Success"
    /\ ~step.result.ok
    /\ map_len(step.out.val) = 2
    /\ step.peer \notin DOMAIN step.out.val
(***************************************************************************)
(* Properties of the discovery of the core API version (SpecVersions).     *)
(***************************************************************************)
\* the peers that support the major of the client's version v with a minor
\* at least the one of v, and the minor each of them has for that major
Qualifying(v) ==
    LET c == discovery.client_versions
        P == discovery.peer_versions
    IN  {<<p, m>> \in (DOMAIN P) \X (0..4) :
            /\ P[p].core_consensus.major = c.core_consensus.major
            /\ \E i \in 1..Len(P[p].api) : P[p].api[i] = ApiVersion(v.major, m)
            /\ m >= v.minor}

\* the first version of the client, in the order of iteration, that no other
\* one has more qualifying peers than
MostSupported ==
    LET api == discovery.client_versions.api
        n(i) == Cardinality(Qualifying(api[i]))
    IN  api[CHOOSE i \in 1..Len(api) :
                /\ \A j \in 1..Len(api) : n(j) <= n(i)
                /\ \A j \in 1..(i - 1) : n(j) < n(i)]

\* C21: when a peer qualifies for some major of the client, the discovered
\* core version has the client major with the most qualifying peers, the
\* first one in the order of iteration if several have the most, and as minor
\* the smallest minor the qualifying peers have for that major.
MostSupportedMajorLeastMinor ==
    discovery.op = "returned" =>
        ((\E i \in 1..Len(discovery.client_versions.api) :
                Qualifying(discovery.client_versions.api[i]) # {})
         => /\ IsSome(discovery.result)
            /\ Unwrap(discovery.result).major = MostSupported.major
            /\ \E q \in Qualifying(MostSupported) :
                    /\ Unwrap(discovery.result).minor = q[2]
                    /\ \A r \in Qualifying(MostSupported) : q[2] <= r[2])

\* C21 witness: the client has (2,3) and (3,1), the peers report (2,2), (2,1),
\* (3,1) and (3,1), and (3,1) is discovered.
DiscoveredThreeOne ==
    /\ discovery.op = "returned"
    /\ discovery.client_versions.api = <<ApiVersion(2, 3), ApiVersion(3, 1)>>
    /\ DOMAIN discovery.peer_versions = PeersOf(4)
    /\ discovery.peer_versions[0].api = <<ApiVersion(2, 2)>>
    /\ discovery.peer_versions[1].api = <<ApiVersion(2, 1)>>
    /\ discovery.peer_versions[2].api = <<ApiVersion(3, 1)>>
    /\ discovery.peer_versions[3].api = <<ApiVersion(3, 1)>>
    /\ discovery.result = Some(ApiVersion(3, 1))

\* some peer reported, and every peer that did supports the major of the
\* client's version v with a minor at least the one of v
AllSupport(v) ==
    /\ DOMAIN discovery.peer_versions # {}
    /\ \A p \in DOMAIN discovery.peer_versions : \E q \in Qualifying(v) : q[1] = p

\* C23 as claimed: for every version (M, m) of the client that every peer
\* supports, the discovered core version has major M and a minor at least m.
MonotoneForEveryClientVersion ==
    discovery.op = "returned" =>
        \A i \in 1..Len(discovery.client_versions.api) :
            LET v == discovery.client_versions.api[i]
            IN  AllSupport(v) =>
                    /\ IsSome(discovery.result)
                    /\ Unwrap(discovery.result).major = v.major
                    /\ Unwrap(discovery.result).minor >= v.minor

\* C23 amended: for every version (M, m) of the client that every peer
\* supports, the discovered core version is of the first major of the client,
\* in the order of iteration, that every peer supports, which is M unless an
\* earlier one is so supported, and its minor is at least the client's minor
\* for that major.
MonotoneForFirstSupported ==
    discovery.op = "returned" =>
        \A i \in 1..Len(discovery.client_versions.api) :
            LET api == discovery.client_versions.api
            IN  AllSupport(api[i]) =>
                    LET first == CHOOSE j \in 1..i :
                                    /\ AllSupport(api[j])
                                    /\ \A k \in 1..(j - 1) : ~AllSupport(api[k])
                    IN  /\ IsSome(discovery.result)
                        /\ Unwrap(discovery.result).major = api[first].major
                        /\ Unwrap(discovery.result).minor >= api[first].minor

\* C23 witness: every peer supports both (2,3) and (3,1) of the client, and
\* the version discovered is of major 2, the first.
BothSupportedFirstWins ==
    /\ discovery.op = "returned"
    /\ discovery.client_versions.api = <<ApiVersion(2, 3), ApiVersion(3, 1)>>
    /\ AllSupport(ApiVersion(2, 3))
    /\ AllSupport(ApiVersion(3, 1))
    /\ discovery.result = Some(ApiVersion(2, 3))
(***************************************************************************)
(* Properties of DiscoverApiVersionSet (SpecDiscover).                     *)
(***************************************************************************)
\* a peer has, under the consensus versions of the client, a version of the
\* major of one of the client's versions with a minor at least that one's
Supports(theirs, ours, same_consensus) ==
    /\ same_consensus
    /\ \E i \in 1..Len(ours.api) : \E j \in 1..Len(theirs.api) :
            /\ theirs.api[j].major = ours.api[i].major
            /\ theirs.api[j].minor >= ours.api[i].minor

\* some peer of the map P supports a core version of the client c
CoreCommon(c, P) ==
    \E p \in DOMAIN P :
        Supports(P[p].core, c.core,
                 P[p].core.core_consensus.major = c.core.core_consensus.major)

\* some peer of the map P has the module instance and supports a version of
\* it of the client c
ModuleCommon(c, P, id) ==
    \E p \in DOMAIN P :
        /\ id \in DOMAIN P[p].modules
        /\ Supports(P[p].modules[id], c.modules[id],
                    /\ P[p].modules[id].core_consensus.major
                            = c.modules[id].core_consensus.major
                    /\ P[p].modules[id].module_consensus.major
                            = c.modules[id].module_consensus.major)

\* C22: every answer DiscoverApiVersionSet processes that completes the inner
\* collection, because all peers have answered or the deadline is reached:
\* if no peer collected supports a core version of the client, also when none
\* was collected, the step is a Failure with a general error and no peers;
\* otherwise it is a Success whose module map has exactly the module
\* instances of the client for which a collected peer supports a version,
\* the others being left out.
NoCommonCoreFails ==
    [][strategy.kind = "DiscoverApiVersionSet" /\ clock' = clock =>
        LET result == step'.result
            collected == IF result.ok
                         THEN map_insert(strategy.inner.responses, step'.peer, result.val)
                         ELSE strategy.inner.responses
            complete == \/ strategy.inner.deadline <= clock
                        \/ result.ok /\ map_len(collected) = Cardinality(federation)
            c == strategy.client_versions
        IN  /\ complete /\ ~CoreCommon(c, collected) =>
                    /\ step'.out.tag = "Failure"
                    /\ IsSome(step'.out.general)
                    /\ step'.out.peers = <<>>
            /\ complete /\ CoreCommon(c, collected) =>
                    /\ step'.out.tag = "Success"
                    /\ DOMAIN step'.out.val.modules =
                            {id \in DOMAIN c.modules : ModuleCommon(c, collected, id)}
            /\ ~complete => step'.out.tag \in {"Continue", "Retry"}]_vars

\* C22 witness: all four peers answered with a core version too old for the
\* client, one of them after an error; the last answer returned a Failure
\* that names no peer.
NoCommonCoreOfFour ==
    /\ strategy.kind = "DiscoverApiVersionSet"
    /\ federation = PeersOf(4)
    /\ step.out.tag = "Failure"
    /\ step.out.peers = <<>>
    /\ step.result.ok
    /\ clock < strategy.inner.deadline
    /\ errored # <<>>

(***************************************************************************)
(* Properties of the backup endpoints and of the consensus hooks (Spec).   *)
(***************************************************************************)
\* the snapshot a request would store
SnapshotOf(request) == [timestamp |-> request.timestamp, data |-> request.payload]

\* C27: a backup request whose signature does not verify is rejected and
\* changes nothing; one that verifies is rejected with "timestamp too small",
\* the snapshot left as it is, when a snapshot is stored for its id whose
\* timestamp is not below the request's; any other request that verifies is
\* accepted and its timestamp and payload become the snapshot of its id
BackupStoresNewer ==
    [][\A t \in Txs :
        (last'.op = "backup" /\ last'.tx = t) =>
            LET request == last'.arg
                key == EcashBackupKey(request.id)
                prev == get_value(tx[t].writes, key)
            IN  /\ db' = db
                /\ ~request.valid =>
                        /\ ~last'.res.ok
                        /\ tx'[t].writes = tx[t].writes
                /\ (request.valid /\ IsSome(prev)
                        /\ Unwrap(prev).timestamp >= request.timestamp) =>
                        /\ last'.res = Err("timestamp too small")
                        /\ tx'[t].writes = tx[t].writes
                /\ (request.valid
                        /\ ~(IsSome(prev) /\ Unwrap(prev).timestamp >= request.timestamp)) =>
                        /\ last'.res.ok
                        /\ tx'[t].writes =
                               [k \in DOMAIN tx[t].writes \cup {key} |->
                                   IF k = key THEN Some(SnapshotOf(request))
                                   ELSE tx[t].writes[k]]]_vars

\* a request that verifies was rejected for carrying the stored timestamp
BackupOfStoredTimestampRejected ==
    /\ last.op = "backup"
    /\ last.arg.valid
    /\ last.res = Err("timestamp too small")
    /\ IsSome(db[EcashBackupKey(last.arg.id)])
    /\ Unwrap(db[EcashBackupKey(last.arg.id)]).timestamp = last.arg.timestamp
    /\ Unwrap(db[EcashBackupKey(last.arg.id)]).data # last.arg.payload

\* C28: a recover request returns the snapshot stored for its id at that
\* moment and changes nothing; the snapshot stored for an id changes only when
\* a transaction commits that holds one for it, and a transaction comes to
\* hold one only by a backup request it accepted, so that the stored snapshot
\* is the one of the last backup accepted for the id, and none before the first
RecoverReadsLastBackup ==
    [][/\ \A t \in Txs :
            (last'.op = "recover" /\ last'.tx = t) =>
                /\ last'.res = Ok(get_value(tx[t].writes, EcashBackupKey(last'.arg)))
                /\ tx' = tx
                /\ db' = db
                /\ metrics' = metrics
       /\ \A id \in BackupIds :
            LET key == EcashBackupKey(id)
            IN  /\ db'[key] # db[key] =>
                        /\ last'.op = "commit"
                        /\ last'.res.ok
                        /\ key \in DOMAIN tx[last'.tx].writes
                        /\ db'[key] = tx[last'.tx].writes[key]
                /\ \A t \in Txs :
                        (/\ key \in DOMAIN tx'[t].writes
                         /\ \/ key \notin DOMAIN tx[t].writes
                            \/ tx'[t].writes[key] # tx[t].writes[key]) =>
                            /\ last'.op = "backup"
                            /\ last'.tx = t
                            /\ last'.res.ok
                            /\ last'.arg.id = id
                            /\ tx'[t].writes[key] = Some(SnapshotOf(last'.arg))]_vars


\* a recover request was answered from the store with a snapshot of the
\* latest timestamp
RecoveredStoredSnapshot ==
    /\ last.op = "recover"
    /\ tx[last.tx].writes = <<>>
    /\ last.res.ok
    /\ IsSome(last.res.val)
    /\ Unwrap(last.res.val).timestamp >= 1
    /\ last.res.val = db[EcashBackupKey(last.arg)]

\* C29: process_consensus_item returns an error for every item of every peer
\* and writes nothing; consensus_proposal returns the empty list
ConsensusItemsRefused ==
    [][/\ \A t \in Txs :
            (last'.op = "process_consensus_item" /\ last'.tx = t) =>
                /\ ~last'.res.ok
                /\ ~last'.res.panic
                /\ tx' = tx
                /\ db' = db
                /\ metrics' = metrics
       /\ \A t \in Txs :
            (last'.op = "consensus_proposal" /\ last'.tx = t) =>
                /\ last'.res = Ok(<<>>)
                /\ tx' = tx
                /\ db' = db]_vars

\* the item of the second peer was refused in a transaction that holds writes
ItemRefusedAmidWrites ==
    /\ last.op = "process_consensus_item"
    /\ last.arg.peer = 1
    /\ last.arg.item = "other item"
    /\ ~last.res.ok
    /\ tx[last.tx].st = "open"
    /\ tx[last.tx].writes # <<>>

(***************************************************************************)
(* Properties of the metrics (SpecMetrics).                                *)
(***************************************************************************)
\* what n observations of total v add to a histogram
Observing(h, n, v) == [count |-> h.count + n, sum |-> h.sum + v]

\* C30: a histogram changes only when a transaction commits, and then by one
\* observation for each redemption and each issuance that succeeded in the
\* transaction; process_input and process_output observe nothing, schedule
\* one hook when they succeed and none when they fail; a transaction that is
\* dropped or fails to commit observes nothing and its hooks are gone
MetricsOnlyOnCommit ==
    [][/\ metrics' # metrics => (last'.op = "commit" /\ last'.res.ok)
       /\ \A t \in Txs :
            (last'.op = "commit" /\ last'.tx = t /\ last'.res.ok) =>
                LET ins == SumOf(Nonces, tx[t].ins)
                    outs == SumOf(OutPoints, tx[t].outs)
                IN  /\ Len(tx[t].hooks) = ins + outs
                    /\ metrics' =
                         [m \in Metrics |->
                            CASE m = "mint_redeemed_ecash_sats" ->
                                    Observing(metrics[m], ins, tx[t].in_msat)
                              [] m = "mint_redeemed_ecash_fees_sats" ->
                                    Observing(metrics[m], ins,
                                              ins * fee_consensus.note_spend_abs)
                              [] m = "mint_issued_ecash_sats" ->
                                    Observing(metrics[m], outs, tx[t].out_msat)
                              [] m = "mint_issued_ecash_fees_sats" ->
                                    Observing(metrics[m], outs,
                                              outs * fee_consensus.note_issuance_abs)]
       /\ \A t \in Txs :
            (last'.op \in {"process_input", "process_output"} /\ last'.tx = t) =>
                IF last'.res.ok
                THEN /\ Len(tx'[t].hooks) = Len(tx[t].hooks) + 1
                     /\ SubSeq(tx'[t].hooks, 1, Len(tx[t].hooks)) = tx[t].hooks
                     /\ tx'[t].hooks[Len(tx'[t].hooks)].metric =
                            (IF last'.op = "process_input" THEN "redeemed" ELSE "issued")
                ELSE IF last'.res.panic THEN tx'[t].hooks = <<>>
                ELSE tx'[t].hooks = tx[t].hooks
       /\ \A t \in Txs :
            (/\ last'.op \in {"commit", "abort"}
             /\ last'.tx = t) => tx'[t].hooks = <<>>]_vars

\* a transaction that redeemed a note failed to commit after another had
\* committed the redemption of the same note: one redemption is observed
FailedCommitObservesNothing ==
    /\ last.op = "commit"
    /\ ~last.res.ok
    /\ SumOf(Nonces, last.ins) = 1
    /\ metrics["mint_redeemed_ecash_sats"].count = 1
    /\ metrics["mint_redeemed_ecash_fees_sats"].sum = fee_consensus.note_spend_abs

(***************************************************************************)
(* Properties of the strategies' assertions (SpecQuery).                   *)
(***************************************************************************)
\* C26: with a driver that has one request outstanding per peer and sends
\* again only to the peers of a Retry, no answer of a peer makes an assert!
\* of a strategy fail: no strategy is handed a peer it still holds in the map
\* or set it guards
NoAssertFails ==
    /\ step.out.tag # "Panic"
    /\ strategy.kind = "ThresholdConsensus" => pending \cap strategy.retry = {}
    /\ strategy.kind \in ErrorStrategyKinds => pending \cap DOMAIN strategy.errors = {}
    /\ strategy.kind \in {"UnionResponses", "UnionResponsesSingle"} =>
            pending \cap strategy.responses = {}
    /\ strategy.kind = "AllOrDeadline" => pending \cap DOMAIN strategy.responses = {}

\* a peer of a Retry of three answered again and was recorded again
AnsweredAgainAfterRetry ==
    /\ strategy.kind = "ThresholdConsensus"
    /\ step.out.tag = "Continue"
    /\ step.result.ok
    /\ strategy.retry = {step.peer}
    /\ map_len(strategy.responses) = 3
    /\ step.peer \in DOMAIN strategy.responses

(***************************************************************************)
(* Properties of the number of Retry steps (SpecRetry).                    *)
(***************************************************************************)
\* the deadline of the strategy, for the strategies that have one
DeadlineOf(s) == IF s.kind = "DiscoverApiVersionSet" THEN s.inner.deadline ELSE s.deadline

\* C25, as stated: in every run in which the driver applies each Retry and
\* keeps feeding the answers, the strategy returns Retry finitely often
RetriesBounded == <>[](step.out.tag # "Retry")

\* C25, amended: ThresholdConsensus returns Retry only on the answer that
\* makes N - f peers have answered since the previous Retry, and names those
\* peers; AllOrDeadline and DiscoverApiVersionSet return Retry only for an
\* error of a peer processed before the deadline, naming that peer, and from
\* the deadline on every answer ends the request
RetryPerRoundOrBeforeDeadline ==
    [][step' # step =>
        /\ (strategy.kind = "ThresholdConsensus" /\ step'.out.tag = "Retry") =>
                /\ step'.result.ok
                /\ step'.peer \notin round
                /\ Cardinality(round \cup {step'.peer}) = Threshold
                /\ step'.out.peers = round \cup {step'.peer}
                /\ pending' \cap round' = {}
        /\ strategy.kind \in {"AllOrDeadline", "DiscoverApiVersionSet"} =>
                /\ step'.out.tag = "Retry" =>
                        /\ ~step'.result.ok
                        /\ clock < DeadlineOf(strategy)
                        /\ step'.out.peers = {step'.peer}
                /\ clock >= DeadlineOf(strategy) =>
                        step'.out.tag \in {"Success", "Failure"}]_vars

\* ThresholdConsensus returned Retry a second time to the three peers that
\* answered the first one as they had answered before
RetriedAgain ==
    /\ strategy.kind = "ThresholdConsensus"
    /\ federation = PeersOf(4)
    /\ step.out = Retry({0, 1, 2})
    /\ strategy.responses = [p \in {0, 1, 2, 3} |-> IF p \in {0, 1} THEN "V" ELSE "W"]

(***************************************************************************)
(* Properties of the stored snapshots under concurrent requests            *)
(* (SpecBackup).                                                           *)
(***************************************************************************)
\* C40: for every backup id the stored snapshot is never removed and its
\* timestamp never decreases; whenever the stored snapshot changes, which is
\* at the commit of an accepted request, the timestamp is strictly above the
\* one stored before, so that an older or replayed request replaces nothing
SnapshotTimestampGrows ==
    [][\A id \in BackupIds :
        LET key == EcashBackupKey(id)
            old == db[key]
            new == db'[key]
        IN  /\ IsSome(old) =>
                    /\ IsSome(new)
                    /\ Unwrap(new).timestamp >= Unwrap(old).timestamp
            /\ (new # old /\ IsSome(old)) =>
                    Unwrap(new).timestamp > Unwrap(old).timestamp
            /\ (last'.op = "backup" /\ last'.arg.id = id /\ last'.arg.valid
                    /\ IsSome(old)
                    /\ last'.arg.timestamp <= Unwrap(old).timestamp) =>
                    /\ ~last'.res.ok
                    /\ tx' = tx]_vars

\* a request that verifies, older than the stored snapshot, was rejected
OlderBackupRejected ==
    /\ last.op = "backup"
    /\ last.arg.valid
    /\ ~last.res.ok
    /\ IsSome(db[EcashBackupKey(last.arg.id)])
    /\ Unwrap(db[EcashBackupKey(last.arg.id)]).timestamp > last.arg.timestamp

(***************************************************************************)
(* The ledger in the committed store (SpecLedger).                         *)
(***************************************************************************)
\* C39: in the committed store RedemptionTotal plus the open Redemption items
\* is the sum of the amounts of the notes redeemed by committed transactions,
\* the nonce of every open Redemption item is in the nonce set, and
\* IssuanceTotal plus the open Issuance items is the sum of the amounts of
\* the outputs processed by committed transactions
LedgerAccounts ==
    LET val == [k \in MintAuditItemKeys |-> ValueOr0(<<>>, k)]
        items_iss == {AuditIssuance(op) : op \in OutPoints}
        items_red == {AuditRedemption(n) : n \in Nonces}
    IN  /\ val[AuditRedemptionTotal] + SumOf(items_red, val) = ledger.redeemed_msat
        /\ \A n \in Nonces : IsSome(db[AuditRedemption(n)]) => IsSome(db[NonceKey(n)])
        /\ val[AuditIssuanceTotal] + SumOf(items_iss, val) = ledger.issued_msat

\* a redemption has been rolled up and committed, and an issuance committed
\* after it is still an open item
RolledUpAndOpen ==
    /\ IsSome(db[AuditRedemptionTotal])
    /\ Unwrap(db[AuditRedemptionTotal]) > 0
    /\ Unwrap(db[AuditIssuanceTotal]) = 0
    /\ \E op \in OutPoints : IsSome(db[AuditIssuance(op)])
    /\ \A n \in Nonces : ~IsSome(db[AuditRedemption(n)])
    /\ ledger.issued_msat > 0

(***************************************************************************)
(* Agreement of ThresholdConsensus (SpecHonest).                           *)
(***************************************************************************)
\* C37: when N - f or more peers are honest and answer V to every request,
\* whatever the other peers answer, in whatever order and after however many
\* Retry steps, a Success of ThresholdConsensus carries V
SuccessOnlyOfHonestValue ==
    step.out.tag = "Success" => step.out.val = "V"

\* as many peers as may be faulty are recorded with an answer other than V,
\* a Retry was applied, and the request ended in Success(V)
AgreedDespiteDissent ==
    /\ step.out.tag = "Success"
    /\ step.out.val = "V"
    /\ MaxEvil >= 1
    /\ Cardinality({p \in DOMAIN strategy.responses : strategy.responses[p] # "V"}) = MaxEvil
    /\ Cardinality(honest) = Cardinality(federation) - MaxEvil
    /\ strategy.retry # DOMAIN strategy.responses

(***************************************************************************)
(* The answers ThresholdConsensus counts (SpecThreshold).                  *)
(***************************************************************************)
\* the peers whose most recently processed result is Ok(v): a peer that has
\* errored is not asked again, so that its error is its latest result
LatestOk(v) ==
    {p \in DOMAIN strategy.responses \ DOMAIN errored : strategy.responses[p] = v}

\* C38, as stated: whenever ThresholdConsensus returns Success(V), the most
\* recently processed result of at least threshold peers is Ok(V)
SuccessOfCurrentAnswers ==
    step.out.tag = "Success" => Cardinality(LatestOk(step.out.val)) >= Threshold

\* C38, amended: whenever ThresholdConsensus returns Success(V), V is the
\* most recently processed Ok response of at least threshold peers; an error
\* a peer returns later does not withdraw its response, and as fewer than
\* f + 1 peers have errored, the most recently processed result of at least
\* threshold - f peers is Ok(V)
SuccessOfRecordedAnswers ==
    step.out.tag = "Success" =>
        /\ Copies(step.out.val) >= Threshold
        /\ Cardinality(DOMAIN errored) <= MaxEvil
        /\ Cardinality(LatestOk(step.out.val)) >= Threshold - MaxEvil
        /\ Cardinality(LatestOk(step.out.val)) =
                Copies(step.out.val)
                - Cardinality({p \in DOMAIN errored \cap DOMAIN strategy.responses :
                                  strategy.responses[p] = step.out.val})

\* a Success counted the response of a peer that errored afterwards
SuccessCountsWithdrawn ==
    /\ step.out.tag = "Success"
    /\ \E p \in DOMAIN errored \cap DOMAIN strategy.responses :
            strategy.responses[p] = step.out.val
    /\ Copies(step.out.val) = Threshold

(***************************************************************************)
(* The key ceremony and the keys of a module (fedimint-mint-server).       *)
(* Scalars are the integers modulo the prime ScalarModulus; the group the  *)
(* public keys live in is the subgroup of that order of the units modulo   *)
(* the prime GroupModulus, written additively in the code: point + point   *)
(* is a product here and point * scalar a power.                           *)
(***************************************************************************)
ScalarModulus == 7
GroupModulus == 29
\* G2Projective::generator(): an element of order ScalarModulus
Generator == 16
Scalars == 0..(ScalarModulus - 1)
\* the scalars the dealer's generator draws
RandomScalars == {0, 2, 5}
\* Scalar::from
Scalar_from(n) == n % ScalarModulus
\* point + point
point_add(p, q) == (p * q) % GroupModulus
\* point * scalar
RECURSIVE point_mul(_, _)
point_mul(p, k) == IF k = 0 THEN 1 ELSE point_add(p, point_mul(p, k - 1))
\* the inverse of a scalar that is not zero
Scalar_invert(a) == CHOOSE b \in Scalars : (a * b) % ScalarModulus = 1

\* SecretKeyShare::to_pub_key_share
to_pub_key_share(sk) == point_mul(Generator, sk)
\* Tiered<SecretKeyShare>::to_public
to_public(sks) == [amount \in DOMAIN sks |-> to_pub_key_share(sks[amount])]
\* Tiered::structural_eq: the same tiers
structural_eq(a, b) == DOMAIN a = DOMAIN b
\* NumPeers::threshold of a federation of n
NumPeers_threshold(n) == max_evil(n) + 1

\* Iterator::rev
rev(coefficients) ==
    [i \in 1..Len(coefficients) |-> coefficients[Len(coefficients) + 1 - i]]
\* Iterator::reduce with |acc, coefficient| acc * x + coefficient
RECURSIVE reduce_horner(_, _, _)
reduce_horner(rest, acc, x) ==
    IF rest = <<>> THEN acc
    ELSE reduce_horner(Tail(rest), (acc * x + Head(rest)) % ScalarModulus, x)

eval_polynomial_forwards(coefficients, x) ==
    IF coefficients = <<>> THEN Panic("We have at least one coefficient")
    ELSE Ok(reduce_horner(Tail(coefficients), Head(coefficients), x))

\* eval_polynomial
eval_polynomial(coefficients, x) ==
    IF coefficients = <<>> THEN Panic("We have at least one coefficient")
    ELSE Ok(reduce_horner(Tail(rev(coefficients)), Head(rev(coefficients)), x))

dealer_keygen_at_index(threshold, keys, rng) ==
    LET poly == SubSeq(rng, 1, threshold)
        sks == [i \in 1..keys |-> eval_polynomial(poly, Scalar_from(i - 1)).val]
    IN  IF poly = <<>> THEN Panic("We have at least one coefficient")
        ELSE Ok([apk |-> point_mul(Generator, eval_polynomial(poly, 0).val),
                 pks |-> [i \in 1..keys |-> point_mul(Generator, sks[i])],
                 sks |-> sks])

dealer_keygen_all_keys(threshold, keys, rng) ==
    LET poly == SubSeq(rng, 1, IF keys < Len(rng) THEN keys ELSE Len(rng))
        sks == [i \in 1..keys |-> eval_polynomial(poly, Scalar_from(i)).val]
    IN  IF poly = <<>> THEN Panic("We have at least one coefficient")
        ELSE Ok([apk |-> point_mul(Generator, eval_polynomial(poly, 0).val),
                 pks |-> [i \in 1..keys |-> point_mul(Generator, sks[i])],
                 sks |-> sks])

\* dealer_keygen; rng is what the random generator draws, and the share of
\* index idx of the code's vectors is the element idx + 1 of the sequences
dealer_keygen(threshold, keys, rng) ==
    LET poly == SubSeq(rng, 1, threshold)
        sks == [i \in 1..keys |-> eval_polynomial(poly, Scalar_from(i)).val]
    IN  IF poly = <<>> THEN Panic("We have at least one coefficient")
        ELSE Ok([apk |-> point_mul(Generator, eval_polynomial(poly, 0).val),
                 pks |-> [i \in 1..keys |-> point_mul(Generator, sks[i])],
                 sks |-> sks])

\* the keys trusted_dealer_gen deals for each denomination
tbs_keys(n, denominations, rng) ==
    [amount \in denominations |-> dealer_keygen(NumPeers_threshold(n), n, rng[amount]).val]

\* trusted_dealer_gen for the peers 0 .. n-1: the MintConfig of each peer
trusted_dealer_gen(n, denominations, rng) ==
    LET keys == tbs_keys(n, denominations, rng)
    IN  [peer \in PeersOf(n) |->
            [consensus |->
                [peer_tbs_pks |->
                    [key_peer \in PeersOf(n) |->
                        [amount \in denominations |-> keys[amount].pks[key_peer + 1]]]],
             private |->
                [tbs_sks |-> [amount \in denominations |-> keys[amount].sks[peer + 1]]]]]

\* the Lagrange multiplier at zero of the share i of keys, a sequence of
\* pairs <<x, public key share>>
RECURSIVE lagrange_multiplier(_, _, _)
lagrange_multiplier(keys, i, j) ==
    IF j > Len(keys) THEN 1
    ELSE IF j = i THEN lagrange_multiplier(keys, i, j + 1)
    ELSE (keys[j][1]
          * Scalar_invert((keys[j][1] - keys[i][1] + ScalarModulus) % ScalarModulus)
          * lagrange_multiplier(keys, i, j + 1)) % ScalarModulus

RECURSIVE aggregate_from(_, _)
aggregate_from(keys, i) ==
    IF i > Len(keys) THEN 1
    ELSE point_add(point_mul(keys[i][2], lagrange_multiplier(keys, i, 1)),
                   aggregate_from(keys, i + 1))

\* tbs::aggregate_public_key_shares: the interpolation at zero
aggregate_public_key_shares(keys) == aggregate_from(keys, 1)

\* the keys of a BTreeMap of peers, in order
RECURSIVE peers_in_order(_)
peers_in_order(peers) ==
    IF peers = {} THEN <<>>
    ELSE LET first == CHOOSE p \in peers : \A q \in peers : p <= q
         IN  <<first>> \o peers_in_order(peers \ {first})

\* (1_u64..).zip(keys).take(threshold) over the keys of the peers for amount
threshold_keys(peer_tbs_pks, amount) ==
    LET order == peers_in_order(DOMAIN peer_tbs_pks)
    IN  [k \in 1..NumPeers_threshold(map_len(peer_tbs_pks)) |->
            <<k, peer_tbs_pks[order[k]][amount]>>]

Mint_new_first_peer(cfg) ==
    LET tbs_sks == cfg.private.tbs_sks
        peer_tbs_pks == cfg.consensus.peer_tbs_pks
    IN  IF DOMAIN tbs_sks = {}
        THEN Panic("assertion failed: cfg.private.tbs_sks.tiers().count() > 0")
        ELSE IF \E id \in DOMAIN peer_tbs_pks : ~structural_eq(peer_tbs_pks[id], tbs_sks)
        THEN Panic("assertion failed: all(|pk| pk.structural_eq(&cfg.private.tbs_sks))")
        ELSE IF DOMAIN peer_tbs_pks = {}
        THEN Panic("Own key not found among pub keys.")
        ELSE Ok([cfg |-> cfg,
                 sec_key |-> tbs_sks,
                 pub_key |-> [amt \in DOMAIN tbs_sks |->
                                aggregate_public_key_shares(
                                    threshold_keys(peer_tbs_pks, amt))]])

\* Mint::new
Mint_new(cfg) ==
    LET tbs_sks == cfg.private.tbs_sks
        peer_tbs_pks == cfg.consensus.peer_tbs_pks
        ref_pub_key == to_public(tbs_sks)
        found == {id \in DOMAIN peer_tbs_pks : peer_tbs_pks[id] = ref_pub_key}
    IN  IF DOMAIN tbs_sks = {}
        THEN Panic("assertion failed: cfg.private.tbs_sks.tiers().count() > 0")
        ELSE IF \E id \in DOMAIN peer_tbs_pks : ~structural_eq(peer_tbs_pks[id], tbs_sks)
        THEN Panic("assertion failed: all(|pk| pk.structural_eq(&cfg.private.tbs_sks))")
        ELSE IF found = {}
        THEN Panic("Own key not found among pub keys.")
        ELSE LET our_id == CHOOSE id \in found : \A other \in found : id <= other
             IN  IF peer_tbs_pks[our_id]
                        # [amount \in DOMAIN tbs_sks |-> to_pub_key_share(tbs_sks[amount])]
                 THEN Panic("assertion left == right failed")
                 ELSE Ok([cfg |-> cfg,
                          sec_key |-> tbs_sks,
                          pub_key |-> [amt \in DOMAIN tbs_sks |->
                                         aggregate_public_key_shares(
                                             threshold_keys(peer_tbs_pks, amt))]])

\* MintInit::validate_config
validate_config(identity, config) ==
    LET sks == [amount \in DOMAIN config.private.tbs_sks |->
                    to_pub_key_share(config.private.tbs_sks[amount])]
    IN  IF identity \notin DOMAIN config.consensus.peer_tbs_pks
        THEN Panic("called Option::unwrap() on a None value")
        ELSE IF sks # config.consensus.peer_tbs_pks[identity]
        THEN Err("Mint private key doesn't match pubkey share")
        ELSE IF 1 \notin DOMAIN sks
        THEN Err("No msat 1 denomination")
        ELSE Ok(<<>>)

(***************************************************************************)
(* Calls of the key functions: a ceremony deals configurations, and        *)
(* configurations, dealt or written by hand, are validated and made        *)
(* modules of.                                                             *)
(***************************************************************************)
\* the peers configurations written by hand name, and the peers validating
ConfigPeers == {0, 1}
ConfigIdentities == {0, 1, 2}
\* the secret shares configurations written by hand hold
ConfigScalars == {1, 2}
\* Tiered<K>: a key for each of some tiers
TieredOver(K) == UNION {[D -> K] : D \in SUBSET Tiers}
\* configurations written by hand
ConfigSet ==
    {[consensus |-> [peer_tbs_pks |-> pks], private |-> [tbs_sks |-> sks]] :
        pks \in UNION {[P -> TieredOver({to_pub_key_share(k) : k \in ConfigScalars})] :
                            P \in SUBSET ConfigPeers},
        sks \in TieredOver(ConfigScalars)}
\* what the random generator may draw during a ceremony for n peers
Draws(n, denominations) ==
    [denominations -> [1..(NumPeers_threshold(n) + 1) -> RandomScalars]]

InitKeys == MintIdle /\ NoQuery /\ NoCalls

\* the configurations at hand: the dealt ones after a ceremony
ConfigsAt ==
    IF call.op = "trusted_dealer_gen" THEN {call.ret[peer] : peer \in DOMAIN call.ret}
    ELSE IF call.op = "none" THEN ConfigSet
    ELSE {}
\* the ceremony the configurations at hand come from
Dealt ==
    IF call.op = "trusted_dealer_gen"
    THEN Some([peers |-> call.peers, denominations |-> call.denominations, rng |-> call.rng])
    ELSE None

TrustedDealerGen(n, denominations, rng) ==
    /\ call.op = "none"
    /\ call' = [op |-> "trusted_dealer_gen", peers |-> n, denominations |-> denominations,
                rng |-> rng, keys |-> tbs_keys(n, denominations, rng),
                ret |-> trusted_dealer_gen(n, denominations, rng)]
    /\ UNCHANGED <<db, tx, last, metrics, ledger, qvars, legacy>>

ValidateConfig(identity, config) ==
    /\ config \in ConfigsAt
    /\ call' = [op |-> "validate_config", identity |-> identity, config |-> config,
                dealt |-> Dealt, ret |-> validate_config(identity, config)]
    /\ UNCHANGED <<db, tx, last, metrics, ledger, qvars, legacy>>

MintNew(cfg) ==
    /\ cfg \in ConfigsAt
    /\ call' = [op |-> "Mint::new", cfg |-> cfg, dealt |-> Dealt, ret |-> Mint_new(cfg)]
    /\ UNCHANGED <<db, tx, last, metrics, ledger, qvars, legacy>>

NextKeys ==
    \/ \E n \in 1..MaxPeers, denominations \in SUBSET Tiers \ {{}} :
       \E rng \in Draws(n, denominations) : TrustedDealerGen(n, denominations, rng)
    \/ \E identity \in ConfigIdentities, config \in ConfigsAt : ValidateConfig(identity, config)
    \/ \E cfg \in ConfigsAt : MintNew(cfg)

SpecKeys == InitKeys /\ [][NextKeys]_vars

(***************************************************************************)
(* The keys of a configuration (SpecKeys).                                 *)
(***************************************************************************)
\* the public shares derived from the secret shares of a configuration
DerivedShares(config) ==
    [amount \in DOMAIN config.private.tbs_sks |->
        to_pub_key_share(config.private.tbs_sks[amount])]

\* the configuration is a valid one for the peer identity
ValidFor(identity, config) ==
    /\ identity \in DOMAIN config.consensus.peer_tbs_pks
    /\ DerivedShares(config) = config.consensus.peer_tbs_pks[identity]
    /\ 1 \in DOMAIN config.private.tbs_sks

\* C31: validate_config succeeds exactly when the public shares derived from
\* the secret shares are the published shares of the peer's own id and the
\* 1 msat denomination is among the tiers; otherwise it returns an error
ValidateConfigDecides ==
    call.op = "validate_config" =>
        IF ValidFor(call.identity, call.config) THEN call.ret = Ok(<<>>)
        ELSE ~call.ret.ok /\ ~call.ret.panic

\* the peers whose published shares are the ones derived from the secret shares
Owners(config) ==
    {id \in DOMAIN config.consensus.peer_tbs_pks :
        config.consensus.peer_tbs_pks[id] = DerivedShares(config)}

\* the tiers of the secret shares and of every peer's published shares are
\* the same, and there is one at least
TiersConsistent(config) ==
    /\ DOMAIN config.private.tbs_sks # {}
    /\ \A id \in DOMAIN config.consensus.peer_tbs_pks :
            DOMAIN config.consensus.peer_tbs_pks[id] = DOMAIN config.private.tbs_sks

\* C32, as stated: Mint::new panics with "Own key not found among pub keys."
\* when the derived public shares are no peer's published shares, and a
\* module it constructs holds secret shares whose derived public shares are
\* the published shares of one peer
MintNewNamesMissingKey ==
    call.op = "Mint::new" =>
        /\ Owners(call.cfg) = {} =>
                call.ret = Panic("Own key not found among pub keys.")
        /\ call.ret.ok =>
                \E id \in DOMAIN call.cfg.consensus.peer_tbs_pks :
                    call.cfg.consensus.peer_tbs_pks[id] = to_public(call.ret.val.sec_key)

\* C32, amended: Mint::new panics when the derived public shares are no
\* peer's published shares, with "Own key not found among pub keys." when
\* the configuration has a tier and the published shares of every peer have
\* the tiers of the secret shares (an earlier assertion fails otherwise); a
\* module it constructs holds secret shares whose derived public shares are
\* the published shares of one peer
MintNewNeedsOwnKey ==
    call.op = "Mint::new" =>
        /\ Owners(call.cfg) = {} => call.ret.panic
        /\ Owners(call.cfg) = {} /\ TiersConsistent(call.cfg) =>
                call.ret = Panic("Own key not found among pub keys.")
        /\ call.ret.ok =>
                \E id \in DOMAIN call.cfg.consensus.peer_tbs_pks :
                    call.cfg.consensus.peer_tbs_pks[id] = to_public(call.ret.val.sec_key)

\* Mint::new found the key of no peer to be its own
OwnKeyNotFound ==
    /\ call.op = "Mint::new"
    /\ DOMAIN call.cfg.consensus.peer_tbs_pks # {}
    /\ call.ret = Panic("Own key not found among pub keys.")

\* x to the power k, a scalar
RECURSIVE ScalarPow(_, _)
ScalarPow(x, k) == IF k = 0 THEN 1 ELSE (x * ScalarPow(x, k - 1)) % ScalarModulus
\* the sum of coefficients[k + 1] * x^k for k from 0 up to degree
RECURSIVE PolyAt(_, _, _)
PolyAt(coefficients, degree, x) ==
    IF degree < 0 THEN 0
    ELSE (coefficients[degree + 1] * ScalarPow(x, degree)
          + PolyAt(coefficients, degree - 1, x)) % ScalarModulus
\* the public shares of the peers of a set with the points they are
\* the shares at, peer i at i + 1
SharesOf(pks, peers) ==
    LET order == peers_in_order(peers)
    IN  [k \in 1..Len(order) |-> <<order[k] + 1, pks[order[k] + 1]>>]

\* the keys dealt for a denomination are shares of the polynomial of degree
\* f the draws are the coefficients of
DealtOf(n, coefficients, keys) ==
    LET f == (n - 1) \div 3
    IN  /\ keys.apk = point_mul(Generator, PolyAt(coefficients, f, 0))
        /\ \A i \in PeersOf(n) :
                /\ keys.sks[i + 1] = PolyAt(coefficients, f, i + 1)
                /\ keys.pks[i + 1] = point_mul(Generator, PolyAt(coefficients, f, i + 1))
        /\ \A peers \in SUBSET PeersOf(n) :
                Cardinality(peers) = f + 1 =>
                    aggregate_public_key_shares(SharesOf(keys.pks, peers))
                        = point_mul(Generator, PolyAt(coefficients, f, 0))

DB_PREFIX_CONSENSUS_ITEM == 1
DB_PREFIX_PARTIAL_SIG == 2
Bytes == 0..255

\* u64::to_be_bytes (width 8) and u16::to_be_bytes (width 2)
RECURSIVE to_be_bytes(_, _)
to_be_bytes(n, width) ==
    IF width = 0 THEN <<>> ELSE Append(to_be_bytes(n \div 256, width - 1), n % 256)
\* u64::from_be_bytes and u16::from_be_bytes
RECURSIVE from_be_bytes(_)
from_be_bytes(bytes) ==
    IF bytes = <<>> THEN 0
    ELSE from_be_bytes(SubSeq(bytes, 1, Len(bytes) - 1)) * 256 + bytes[Len(bytes)]

PartialSignatureKey_to_bytes_peer_first(key) ==
    <<DB_PREFIX_PARTIAL_SIG>> \o to_be_bytes(key.peer_id, 2) \o to_be_bytes(key.request_id, 8)

\* <PartialSignatureKey as DatabaseEncode>::to_bytes
PartialSignatureKey_to_bytes(key) ==
    <<DB_PREFIX_PARTIAL_SIG>> \o to_be_bytes(key.request_id, 8) \o to_be_bytes(key.peer_id, 2)

PartialSignatureKey_from_bytes_any_tag(data) ==
    IF Len(data) # 11 THEN Err("Expected 11 bytes, got something else")
    ELSE Ok([request_id |-> from_be_bytes(SubSeq(data, 2, 9)),
             peer_id |-> from_be_bytes(SubSeq(data, 10, 11))])

\* <PartialSignatureKey as DatabaseDecode>::from_bytes
PartialSignatureKey_from_bytes(data) ==
    IF Len(data) # 11 THEN Err("Expected 11 bytes, got something else")
    ELSE IF data[1] # DB_PREFIX_PARTIAL_SIG
    THEN Err("Expected partial sig, got something else")
    ELSE Ok([request_id |-> from_be_bytes(SubSeq(data, 2, 9)),
             peer_id |-> from_be_bytes(SubSeq(data, 10, 11))])

\* <PartialSignaturesPrefixKey as DatabaseEncode>::to_bytes
PartialSignaturesPrefixKey_to_bytes(key) ==
    <<DB_PREFIX_PARTIAL_SIG>> \o to_be_bytes(key.request_id, 8)

\* the request ids and peer ids keys are made of
KeyRequestIds == {0, 1, 255, 256, 65536, 16777217}
KeyPeerIds == {0, 1, 255, 256, 65535}
\* what is given to from_bytes: an encoded key, or one with a byte more or
\* less, another tag, or another last byte
DataOf(bytes) ==
    {bytes, Tail(bytes), SubSeq(bytes, 1, 9), bytes \o <<0>>, <<>>,
     [bytes EXCEPT ![1] = DB_PREFIX_CONSENSUS_ITEM], [bytes EXCEPT ![1] = 3],
     Tail(bytes) \o <<DB_PREFIX_PARTIAL_SIG>>,
     [bytes EXCEPT ![11] = (bytes[11] + 1) % 256]}

\* a key is encoded, and so is the prefix key of a request id
EncodeKey(key, request_id) ==
    /\ call.op = "none"
    /\ call' = [op |-> "to_bytes", key |-> key, request_id |-> request_id,
                ret |-> PartialSignatureKey_to_bytes(key),
                prefix |-> PartialSignaturesPrefixKey_to_bytes([request_id |-> request_id])]
    /\ UNCHANGED <<db, tx, last, metrics, ledger, qvars, legacy>>

\* bytes are decoded
DecodeKey(data) ==
    /\ call.op = "to_bytes"
    /\ data \in DataOf(call.ret)
    /\ call' = [op |-> "from_bytes", key |-> call.key, encoded |-> call.ret, data |-> data,
                ret |-> PartialSignatureKey_from_bytes(data)]
    /\ UNCHANGED <<db, tx, last, metrics, ledger, qvars, legacy>>

NextEncoding ==
    \/ \E request_id \in KeyRequestIds, peer_id \in KeyPeerIds, other \in KeyRequestIds :
            EncodeKey([request_id |-> request_id, peer_id |-> peer_id], other)
    \/ call.op = "to_bytes" /\ \E data \in DataOf(call.ret) : DecodeKey(data)

SpecEncoding == InitKeys /\ [][NextEncoding]_vars

\* sequence prefix is the beginning of sequence bytes
IsPrefix(prefix, bytes) ==
    Len(prefix) <= Len(bytes) /\ SubSeq(bytes, 1, Len(prefix)) = prefix

\* C34: a PartialSignatureKey is encoded as 11 bytes, 0x02, the request id
\* as 8 big-endian bytes and the peer id as 2; decoding what was encoded
\* returns the key, decoding fails when the length is not 11 or the first
\* byte not 0x02, and the 9-byte prefix key of a request id is a prefix of
\* exactly the keys of that request id
KeyEncodingRoundTrips ==
    /\ call.op = "to_bytes" =>
            /\ Len(call.ret) = 11
            /\ \A i \in 1..11 : call.ret[i] \in Bytes
            /\ call.ret[1] = 2
            /\ \A i \in 2..5 : call.ret[i] = 0
            /\ call.ret[6] = (call.key.request_id \div 16777216) % 256
            /\ call.ret[7] = (call.key.request_id \div 65536) % 256
            /\ call.ret[8] = (call.key.request_id \div 256) % 256
            /\ call.ret[9] = call.key.request_id % 256
            /\ call.ret[10] = call.key.peer_id \div 256
            /\ call.ret[11] = call.key.peer_id % 256
            /\ Len(call.prefix) = 9
            /\ IsPrefix(call.prefix, call.ret) <=> call.request_id = call.key.request_id
    /\ call.op = "from_bytes" =>
            /\ call.data = call.encoded => call.ret = Ok(call.key)
            /\ Len(call.data) # 11 => ~call.ret.ok
            /\ Len(call.data) >= 1 /\ call.data[1] # 2 => ~call.ret.ok

\* a key of a request id and a peer id of more than a byte each was
\* encoded and decoded again
KeyDecodedAgain ==
    /\ call.op = "from_bytes"
    /\ call.key.request_id > 65536
    /\ call.key.peer_id > 256
    /\ call.data = call.encoded
    /\ call.ret.ok

(***************************************************************************)
(* The legacy consensus (minimint consensus.rs): the outcome of an epoch   *)
(* is a batch of consensus items, peer by peer.  The database maps keys,   *)
(* sequences of bytes, to values.  A PartialSigResponse is known by the    *)
(* request it signs and the peer that signed; whether the shares of a      *)
(* request combine is for the mint to say.                                 *)
(***************************************************************************)
\* the numbers of peers of the federations, and the requests they sign
FederationSizes == {1, 4}
LegacyRequestIds == {1, 257}
\* the numbers of items of a batch: one, and in the federation of one peer
\* two as well
BatchLens(n) == IF n = 1 THEN {1, 2} ELSE {1}

\* ServerConfig::max_faulty
max_faulty(cfg) == max_evil(cfg.peers)
\* FediMintConsensus::tbs_threshold
tbs_threshold(cfg) == cfg.peers - max_faulty(cfg) - 1

\* ConsensusItem
ClientRequest_PegIn(id) == [kind |-> "PegIn", id |-> id]
PartiallySignedRequest(psig) == [kind |-> "PartiallySignedRequest", psig |-> psig]
\* <ConsensusItem as DatabaseEncode>::to_bytes; the serialization of the
\* item is kept as the item
ConsensusItem_to_bytes(ci) == <<DB_PREFIX_CONSENSUS_ITEM, ci>>

\* Database::remove_entry: the database afterwards
db_remove_entry(d, key) == [k \in DOMAIN d \ {key} |-> d[k]]
\* PrefixSearchable::find_by_prefix: the keys that begin with the prefix
db_find_by_prefix(d, prefix) ==
    {k \in DOMAIN d : Len(prefix) <= Len(k) /\ SubSeq(k, 1, Len(prefix)) = prefix}

\* FediMintConsensus::process_peg_in_request: the database afterwards
process_peg_in_request(cfg, d, peg_in) ==
    LET signed_req == [id |-> peg_in.id, by |-> cfg.identity]
    IN  map_insert(map_insert(d, ConsensusItem_to_bytes(PartiallySignedRequest(signed_req)), <<>>),
                   PartialSignatureKey_to_bytes([request_id |-> signed_req.id,
                                                 peer_id |-> cfg.identity]),
                   signed_req)

process_partial_signature_at_threshold(cfg, d, peer, partial_sig, combines) ==
    LET req_id == partial_sig.id
        stored == map_insert(d, PartialSignatureKey_to_bytes([request_id |-> req_id,
                                                              peer_id |-> peer]),
                             partial_sig)
        req_psigs == db_find_by_prefix(stored,
                        PartialSignaturesPrefixKey_to_bytes([request_id |-> req_id]))
    IN  IF Cardinality(req_psigs) >= tbs_threshold(cfg)
        THEN IF combines
             THEN [db |-> [k \in DOMAIN stored \ req_psigs |-> stored[k]],
                   ret |-> Some([id |-> req_id]), attempted |-> TRUE]
             ELSE [db |-> stored, ret |-> None, attempted |-> TRUE]
        ELSE [db |-> stored, ret |-> None, attempted |-> FALSE]

process_partial_signature_keeps(cfg, d, peer, partial_sig, combines) ==
    LET req_id == partial_sig.id
        stored == map_insert(d, PartialSignatureKey_to_bytes([request_id |-> req_id,
                                                              peer_id |-> peer]),
                             partial_sig)
        req_psigs == db_find_by_prefix(stored,
                        PartialSignaturesPrefixKey_to_bytes([request_id |-> req_id]))
    IN  IF Cardinality(req_psigs) > tbs_threshold(cfg)
        THEN IF combines
             THEN [db |-> stored, ret |-> Some([id |-> req_id]), attempted |-> TRUE]
             ELSE [db |-> stored, ret |-> None, attempted |-> TRUE]
        ELSE [db |-> stored, ret |-> None, attempted |-> FALSE]

\* FediMintConsensus::process_partial_signature: the database afterwards,
\* what it returns and whether it called combine, which succeeds if combines
process_partial_signature(cfg, d, peer, partial_sig, combines) ==
    LET req_id == partial_sig.id
        stored == map_insert(d, PartialSignatureKey_to_bytes([request_id |-> req_id,
                                                              peer_id |-> peer]),
                             partial_sig)
        req_psigs == db_find_by_prefix(stored,
                        PartialSignaturesPrefixKey_to_bytes([request_id |-> req_id]))
    IN  IF Cardinality(req_psigs) > tbs_threshold(cfg)
        THEN IF combines
             THEN [db |-> [k \in DOMAIN stored \ req_psigs |-> stored[k]],
                   ret |-> Some([id |-> req_id]), attempted |-> TRUE]
             ELSE [db |-> stored, ret |-> None, attempted |-> TRUE]
        ELSE [db |-> stored, ret |-> None, attempted |-> FALSE]

\* the loop of process_consensus_outcome over the contributions that are
\* left: the database afterwards, the responses, and history, the calls of
\* process_partial_signature
RECURSIVE outcome_from(_, _, _, _)
outcome_from(cfg, d, contributions, acc) ==
    IF contributions = <<>> THEN [db |-> d, responses |-> acc.responses, calls |-> acc.calls]
    ELSE LET peer == Head(contributions).peer
             ci == Head(contributions).ci
             removed == db_remove_entry(d, ConsensusItem_to_bytes(ci))
         IN  IF ci.kind = "PegIn"
             THEN outcome_from(cfg, process_peg_in_request(cfg, removed, ci),
                               Tail(contributions), acc)
             ELSE LET r == process_partial_signature(cfg, removed, peer, ci.psig,
                                                     Head(contributions).combines)
                  IN  outcome_from(cfg, r.db, Tail(contributions),
                          [responses |-> IF IsSome(r.ret)
                                         THEN Append(acc.responses, Unwrap(r.ret))
                                         ELSE acc.responses,
                           calls |-> Append(acc.calls,
                                        [peer |-> peer, psig |-> ci.psig,
                                         combines |-> Head(contributions).combines,
                                         before |-> removed, after |-> r.db,
                                         ret |-> r.ret, attempted |-> r.attempted])])

\* FediMintConsensus::process_consensus_outcome
process_consensus_outcome(cfg, d, contributions) ==
    outcome_from(cfg, d, contributions, [responses |-> <<>>, calls |-> <<>>])

\* what a peer may contribute: its signature share of a request, which may
\* be one the mint combines with the others or not, or a peg-in request;
\* the code does not look at who contributed a peg-in request, and the
\* batches have peer 0 contribute the one of request 1
ContributionsOf(peer) ==
    {[peer |-> peer, ci |-> ClientRequest_PegIn(id), combines |-> FALSE] :
        id \in IF peer = 0 THEN {1} ELSE {}}
    \cup {[peer |-> peer, ci |-> PartiallySignedRequest([id |-> id, by |-> peer]),
           combines |-> combines] : id \in LegacyRequestIds, combines \in BOOLEAN}
\* Batch::contributions: the items of a batch, peer by peer
Batches(n) ==
    LET items == UNION {ContributionsOf(peer) : peer \in PeersOf(n)}
    IN  {batch \in UNION {[1..len -> items] : len \in BatchLens(n)} :
            \A i \in 1..(Len(batch) - 1) : batch[i].peer <= batch[i + 1].peer}

InitLegacy ==
    /\ MintIdle
    /\ NoQuery
    /\ call = [op |-> "none"]
    /\ \E n \in FederationSizes :
            legacy = [op |-> "none", cfg |-> [peers |-> n, identity |-> 0], db |-> <<>>,
                      answered |-> {}, responses |-> <<>>, calls |-> <<>>]

\* the outcome of an epoch is processed
ProcessConsensusOutcome(batch) ==
    LET r == process_consensus_outcome(legacy.cfg, legacy.db, batch)
    IN  /\ legacy' = [op |-> "process_consensus_outcome", cfg |-> legacy.cfg, db |-> r.db,
                      answered |-> legacy.answered
                                    \cup {r.responses[i].id : i \in 1..Len(r.responses)},
                      responses |-> r.responses, calls |-> r.calls]
        /\ UNCHANGED <<db, tx, last, metrics, ledger, qvars, call>>

NextLegacy == \E batch \in Batches(legacy.cfg.peers) : ProcessConsensusOutcome(batch)

SpecLegacy == InitLegacy /\ [][NextLegacy]_vars

\* the peers a share of which is stored for the request
PeersStored(d, request_id) ==
    {PartialSignatureKey_from_bytes(k).val.peer_id :
        k \in {x \in DOMAIN d : /\ PartialSignatureKey_from_bytes(x).ok
                                /\ PartialSignatureKey_from_bytes(x).val.request_id
                                        = request_id}}
\* what is stored but the shares of the request
StoredBeside(d, request_id) ==
    LET others == {x \in DOMAIN d :
                        \/ ~PartialSignatureKey_from_bytes(x).ok
                        \/ PartialSignatureKey_from_bytes(x).val.request_id # request_id}
    IN  [k \in others |-> d[k]]

\* C35: process_partial_signature tries to combine the shares of a request
\* only when shares of more than N - f - 1 peers are stored for it, a second
\* share of a peer replacing the first; when combining succeeds it removes
\* every stored share of the request and returns the signature, and when the
\* shares are too few or do not combine it returns nothing and keeps them
CombinesAboveThreshold ==
    legacy.op = "process_consensus_outcome" =>
        \A i \in 1..Len(legacy.calls) :
            LET c == legacy.calls[i]
                request_id == c.psig.id
                stored == PeersStored(c.before, request_id) \cup {c.peer}
                N == legacy.cfg.peers
                f == (N - 1) \div 3
            IN  /\ c.attempted <=> Cardinality(stored) > N - f - 1
                /\ IsSome(c.ret) <=> c.attempted /\ c.combines
                /\ IsSome(c.ret) =>
                        /\ c.ret = Some([id |-> request_id])
                        /\ PeersStored(c.after, request_id) = {}
                /\ ~IsSome(c.ret) => PeersStored(c.after, request_id) = stored
                /\ StoredBeside(c.after, request_id) = StoredBeside(c.before, request_id)

\* shares were combined, one of them the second share of its peer, and the
\* shares stored for the other request were kept
CombinedAndRemoved ==
    /\ legacy.op = "process_consensus_outcome"
    /\ legacy.cfg.peers = 4
    /\ \E i \in 1..Len(legacy.calls) :
            /\ IsSome(legacy.calls[i].ret)
            /\ \E other \in LegacyRequestIds :
                    /\ other # legacy.calls[i].psig.id
                    /\ PeersStored(legacy.calls[i].after, other) # {}
       
\* the number of responses for the request among the responses
RECURSIVE ResponsesFor(_, _)
ResponsesFor(responses, request_id) ==
    IF responses = <<>> THEN 0
    ELSE (IF Head(responses).id = request_id THEN 1 ELSE 0)
         + ResponsesFor(Tail(responses), request_id)

\* C36: over any sequence of batches, process_consensus_outcome emits at
\* most one SigResponse for a request id: a request answered by an earlier
\* batch is not answered again, nor is a request answered twice by a batch
OneSigResponsePerRequest ==
    [][\A request_id \in LegacyRequestIds :
            ResponsesFor(legacy'.responses, request_id)
                + (IF request_id \in legacy.answered THEN 1 ELSE 0) <= 1]_vars

====
